---------------------------- MODULE Spec2Model ----------------------------
(***************************************************************************)
(* A model of libmodbus (modbus.c): the RTU/TCP frame codec, the receive   *)
(* engine, the master operations and the server dispatch.                  *)
(***************************************************************************)
EXTENDS Integers, Sequences, FiniteSets, TLC

(***************************************************************************)
(* Program constants (modbus.h).                                           *)
(***************************************************************************)
MAX_PACKET_SIZE == 260
HEADER_LENGTH_RTU == 0
HEADER_LENGTH_TCP == 6
CHECKSUM_SIZE_RTU == 2
CHECKSUM_SIZE_TCP == 0
PRESET_QUERY_SIZE_RTU == 6
PRESET_QUERY_SIZE_TCP == 12
PRESET_RESPONSE_SIZE_RTU == 2
PRESET_RESPONSE_SIZE_TCP == 8
MSG_SIZE_UNDEFINED == -1
MAX_READ_HOLD_REGS == 125
MAX_READ_INPUT_REGS == 125
MAX_WRITE_REGS == 123
MAX_WRITE_COILS == 1968
UINT16_MAX == 65535
NB_TAB_ERROR_MSG == 12

FC_READ_COIL_STATUS == 1
FC_READ_INPUT_STATUS == 2
FC_READ_HOLDING_REGISTERS == 3
FC_READ_INPUT_REGISTERS == 4
FC_FORCE_SINGLE_COIL == 5
FC_PRESET_SINGLE_REGISTER == 6
FC_READ_EXCEPTION_STATUS == 7
FC_FORCE_MULTIPLE_COILS == 15
FC_PRESET_MULTIPLE_REGISTERS == 16
FC_REPORT_SLAVE_ID == 17

COMM_TIME_OUT == -12
PORT_SOCKET_FAILURE == -13
SELECT_FAILURE == -14
TOO_MANY_DATAS == -15
INVALID_CRC == -16
INVALID_EXCEPTION_CODE == -17
CONNECTION_CLOSED == -18

ON == 1
OFF == 0

(***************************************************************************)
(* Machine arithmetic on bytes and 16-bit words.                           *)
(***************************************************************************)
RECURSIVE BitXor(_, _)
BitXor(a, b) ==
  IF a = 0 THEN b
  ELSE IF b = 0 THEN a
  ELSE (((a % 2) + (b % 2)) % 2) + (2 * BitXor(a \div 2, b \div 2))

RECURSIVE BitAnd(_, _)
BitAnd(a, b) ==
  IF a = 0 \/ b = 0 THEN 0
  ELSE ((a % 2) * (b % 2)) + (2 * BitAnd(a \div 2, b \div 2))

RECURSIVE BitOr(_, _)
BitOr(a, b) ==
  IF a = 0 THEN b
  ELSE IF b = 0 THEN a
  ELSE (IF (a % 2) + (b % 2) > 0 THEN 1 ELSE 0) + (2 * BitOr(a \div 2, b \div 2))

RECURSIVE Pow2(_)
Pow2(n) ==
  IF n = 0 THEN 1 ELSE 2 * Pow2(n - 1)

U8(x) ==
  x % 256

U16(x) ==
  x % 65536

Hi(w) ==
  (w \div 256) % 256

Lo(w) ==
  w % 256

Min(a, b) ==
  IF a < b THEN a ELSE b

Max(a, b) ==
  IF a < b THEN b ELSE a

(***************************************************************************)
(* CRC-16 lookup tables (indexed from 0 in the source, from 1 here).       *)
(***************************************************************************)
table_crc_hi ==
  <<
    0, 193, 129, 64, 1, 192, 128, 65, 1, 192, 128, 65, 0, 193, 129, 64,
    1, 192, 128, 65, 0, 193, 129, 64, 0, 193, 129, 64, 1, 192, 128, 65,
    1, 192, 128, 65, 0, 193, 129, 64, 0, 193, 129, 64, 1, 192, 128, 65,
    0, 193, 129, 64, 1, 192, 128, 65, 1, 192, 128, 65, 0, 193, 129, 64,
    1, 192, 128, 65, 0, 193, 129, 64, 0, 193, 129, 64, 1, 192, 128, 65,
    0, 193, 129, 64, 1, 192, 128, 65, 1, 192, 128, 65, 0, 193, 129, 64,
    0, 193, 129, 64, 1, 192, 128, 65, 1, 192, 128, 65, 0, 193, 129, 64,
    1, 192, 128, 65, 0, 193, 129, 64, 0, 193, 129, 64, 1, 192, 128, 65,
    1, 192, 128, 65, 0, 193, 129, 64, 0, 193, 129, 64, 1, 192, 128, 65,
    0, 193, 129, 64, 1, 192, 128, 65, 1, 192, 128, 65, 0, 193, 129, 64,
    0, 193, 129, 64, 1, 192, 128, 65, 1, 192, 128, 65, 0, 193, 129, 64,
    1, 192, 128, 65, 0, 193, 129, 64, 0, 193, 129, 64, 1, 192, 128, 65,
    0, 193, 129, 64, 1, 192, 128, 65, 1, 192, 128, 65, 0, 193, 129, 64,
    1, 192, 128, 65, 0, 193, 129, 64, 0, 193, 129, 64, 1, 192, 128, 65,
    1, 192, 128, 65, 0, 193, 129, 64, 0, 193, 129, 64, 1, 192, 128, 65,
    0, 193, 129, 64, 1, 192, 128, 65, 1, 192, 128, 65, 0, 193, 129, 64
  >>

table_crc_lo ==
  <<
    0, 192, 193, 1, 195, 3, 2, 194, 198, 6, 7, 199, 5, 197, 196, 4,
    204, 12, 13, 205, 15, 207, 206, 14, 10, 202, 203, 11, 201, 9, 8, 200,
    216, 24, 25, 217, 27, 219, 218, 26, 30, 222, 223, 31, 221, 29, 28, 220,
    20, 212, 213, 21, 215, 23, 22, 214, 210, 18, 19, 211, 17, 209, 208, 16,
    240, 48, 49, 241, 51, 243, 242, 50, 54, 246, 247, 55, 245, 53, 52, 244,
    60, 252, 253, 61, 255, 63, 62, 254, 250, 58, 59, 251, 57, 249, 248, 56,
    40, 232, 233, 41, 235, 43, 42, 234, 238, 46, 47, 239, 45, 237, 236, 44,
    228, 36, 37, 229, 39, 231, 230, 38, 34, 226, 227, 35, 225, 33, 32, 224,
    160, 96, 97, 161, 99, 163, 162, 98, 102, 166, 167, 103, 165, 101, 100, 164,
    108, 172, 173, 109, 175, 111, 110, 174, 170, 106, 107, 171, 105, 169, 168, 104,
    120, 184, 185, 121, 187, 123, 122, 186, 190, 126, 127, 191, 125, 189, 188, 124,
    180, 116, 117, 181, 119, 183, 182, 118, 114, 178, 179, 115, 177, 113, 112, 176,
    80, 144, 145, 81, 147, 83, 82, 146, 150, 86, 87, 151, 85, 149, 148, 84,
    156, 92, 93, 157, 95, 159, 158, 94, 90, 154, 155, 91, 153, 89, 88, 152,
    136, 72, 73, 137, 75, 139, 138, 74, 78, 142, 143, 79, 141, 77, 76, 140,
    68, 132, 133, 69, 135, 71, 70, 134, 130, 66, 67, 131, 65, 129, 128, 64
  >>

(* crc16(): table-driven CRC over the first buffer_length bytes.  One     *)
(* pass of the while loop takes the pair <<crc_hi, crc_lo>> and the next  *)
(* byte to the next pair.                                                  *)
(* The loop body without the exclusive or of crc_lo into the new crc_hi.   *)
crc16_step_unmixed(crc, byte) ==
  LET i == BitXor(crc[1], byte)
  IN  <<table_crc_hi[i + 1], table_crc_lo[i + 1]>>

crc16_step(crc, byte) ==
  LET i == BitXor(crc[1], byte)
  IN  <<BitXor(crc[2], table_crc_hi[i + 1]), table_crc_lo[i + 1]>>

(* The passes of the loop over buffer[first..last], in order: those over  *)
(* the first half, then those over the second half, which start from the  *)
(* value c the first half ended with.                                      *)
RECURSIVE crc16_loop(_, _, _, _)
crc16_loop(buffer, first, last, crc) ==
  IF first > last THEN crc
  ELSE IF first = last THEN crc16_step(crc, buffer[first])
  ELSE LET mid == (first + last) \div 2
       IN  CHOOSE r \in {crc16_loop(buffer, mid + 1, last, c) :
                           c \in {crc16_loop(buffer, first, mid, crc)}} : TRUE

crc16(buffer) ==
  CHOOSE r \in {crc[1] * 256 + crc[2] :
                  crc \in {crc16_loop(b, 1, Len(b), <<255, 255>>) :
                              b \in {buffer}}} : TRUE


(***************************************************************************)
(* Bounds of the model.                                                    *)
(***************************************************************************)
MaxCalls == 2
MaxRequests == 1

(***************************************************************************)
(* State.                                                                  *)
(*  type_com, error_handling : fields of modbus_param_t                    *)
(*  conn          : the descriptor mb_param->fd, as [gen, open]            *)
(*  t_id          : the static counter of build_query_packet_tcp           *)
(*  resp_t_id     : the static counter of build_response_packet_tcp        *)
(*  junk          : the value of a byte nobody has written                 *)
(*  rxq, inflight : bytes in the descriptor's input queue, and bytes the   *)
(*                  peer has sent that have not arrived yet; each byte is  *)
(*                  paired with the number of the request it replies to    *)
(*  eof           : the peer closed the connection / the line hung up      *)
(*  pending       : requests that reached the peer and are not answered    *)
(*  pc            : position of the caller                                 *)
(*  rx            : the locals of receive_msg                              *)
(*  op, calls     : the running master operation and its number            *)
(*  query, query_size : the request buffer of the master operation         *)
(*  response, response_size : the buffer and local of                      *)
(*                  modbus_check_response                                  *)
(*  data_dest     : the caller's destination array (slots written so far)  *)
(*  result        : the value returned to the caller                       *)
(*  sent          : frames written to the descriptor, oldest first (of a   *)
(*                  server: since modbus_listen was called)                *)
(*  nb_error_treat, flushed, reconnected : what error_treat did during     *)
(*                  the running call                                       *)
(*  consumed      : request numbers of the bytes read during the call      *)
(*  mb_mapping    : the server's register map                              *)
(*  srv           : the server's last request and what it did with it      *)
(*                  (before: the register map when manage_query began)     *)
(***************************************************************************)
VARIABLES type_com, error_handling, conn, t_id, resp_t_id, junk,
          rxq, inflight, eof, pending, pc, rx, op, calls,
          query, query_size, response, response_size, data_dest, result,
          sent, nb_error_treat, flushed, reconnected, consumed,
          mb_mapping, srv, heap

vars ==
  <<type_com, error_handling, conn, t_id, resp_t_id, junk,
    rxq, inflight, eof, pending, pc, rx, op, calls,
    query, query_size, response, response_size, data_dest, result,
    sent, nb_error_treat, flushed, reconnected, consumed,
    mb_mapping, srv, heap>>

header_length ==
  IF type_com = "RTU" THEN HEADER_LENGTH_RTU ELSE HEADER_LENGTH_TCP

checksum_size ==
  IF type_com = "RTU" THEN CHECKSUM_SIZE_RTU ELSE CHECKSUM_SIZE_TCP

(* buf[i] of the C source: a byte that was never written reads as junk. *)
Rd(buf, i) ==
  IF i >= 0 /\ i < Len(buf) THEN buf[i + 1] ELSE junk

(* The first n bytes of a C buffer. *)
View(buf, n) ==
  [i \in 1..n |-> Rd(buf, i - 1)]

(* The buffer after storing chunk at offset pos. *)
Store(buf, pos, chunk) ==
  [i \in 1..Max(Len(buf), pos + Len(chunk)) |->
     IF i > pos /\ i <= pos + Len(chunk) THEN chunk[i - pos]
     ELSE Rd(buf, i - 1)]

Bytes(q) ==
  [i \in 1..Len(q) |-> q[i][1]]

Tagged(frame, n) ==
  [i \in 1..Len(frame) |-> <<frame[i], n>>]

Tags(q) ==
  {q[i][2] : i \in 1..Len(q)}

(***************************************************************************)
(* Frame codec.                                                            *)
(***************************************************************************)
build_query_packet_rtu(slave, function, start_addr, count) ==
  <<U8(slave), U8(function), Hi(U16(start_addr)), Lo(U16(start_addr)),
    Hi(U16(count)), Lo(U16(count))>>

(* A counter that never wraps. *)
next_t_id_unbounded(t) ==
  t + 1

next_t_id(t) ==
  IF t < UINT16_MAX THEN t + 1 ELSE 0

build_query_packet_tcp(tid, slave, function, start_addr, count) ==
  <<Hi(tid), Lo(tid), 0, 0, junk, junk,
    U8(slave), U8(function), Hi(U16(start_addr)), Lo(U16(start_addr)),
    Hi(U16(count)), Lo(U16(count))>>

build_query_packet(tid, slave, function, start_addr, count) ==
  IF type_com = "RTU"
  THEN build_query_packet_rtu(slave, function, start_addr, count)
  ELSE build_query_packet_tcp(tid, slave, function, start_addr, count)

build_response_packet_rtu(slave, function, byte_count) ==
  <<U8(slave), U8(function), U8(byte_count)>>

build_response_packet_tcp(tid, slave, function, byte_count) ==
  <<Hi(tid), Lo(tid), 0, 0, junk, junk,
    U8(slave), U8(function), U8(byte_count)>>

build_response_packet(tid, slave, function, byte_count) ==
  IF type_com = "RTU"
  THEN build_response_packet_rtu(slave, function, byte_count)
  ELSE build_response_packet_tcp(tid, slave, function, byte_count)

(* A length field that counts the six bytes of the header too. *)
set_packet_length_tcp_whole(packet, packet_size) ==
  LET mbap_length == U16(packet_size)
  IN  Store(packet, 4, <<Hi(mbap_length), Lo(mbap_length)>>)

set_packet_length_tcp(packet, packet_size) ==
  LET mbap_length == U16(packet_size - 6)
  IN  Store(packet, 4, <<Hi(mbap_length), Lo(mbap_length)>>)

(* A verifier that accepts every trailer. *)
check_crc16_accepting(msg, msg_size) ==
  TRUE

(* check_crc16(): TRUE when it returns 0, FALSE when it calls error_treat *)
(* and returns INVALID_CRC.                                               *)
check_crc16(msg, msg_size) ==
  IF type_com = "RTU"
  THEN LET crc_calc == crc16(View(msg, msg_size - 2))
           crc_received == Rd(msg, msg_size - 2) * 256 + Rd(msg, msg_size - 1)
       IN  crc_calc = crc_received
  ELSE TRUE

(* A sender that writes the two bytes of s_crc in the other order. *)
modbus_send_buffer_swapped(buf, size) ==
  IF type_com = "RTU"
  THEN LET s_crc == crc16(View(buf, size))
       IN  Store(buf, size, <<Lo(s_crc), Hi(s_crc)>>)
  ELSE set_packet_length_tcp(buf, size)

(* modbus_send(): the buffer after the trailer or the length was written. *)
(* The bytes put on the wire are its first modbus_send_size(query_size)   *)
(* bytes.                                                                 *)
modbus_send_buffer(buf, size) ==
  IF type_com = "RTU"
  THEN LET s_crc == crc16(View(buf, size))
       IN  Store(buf, size, <<Hi(s_crc), Lo(s_crc)>>)
  ELSE set_packet_length_tcp(buf, size)

(* A transport that carries every frame twice. *)
modbus_send_wire_twice(wire, frame) ==
  Append(Append(wire, frame), frame)

(* modbus_send(): the one call of write() or send(); wire is what the     *)
(* descriptor carried so far.                                              *)
modbus_send_wire(wire, frame) ==
  Append(wire, frame)

modbus_send_size(size) ==
  IF type_com = "RTU" THEN size + 2 ELSE size

modbus_send_frame(buf, size) ==
  View(modbus_send_buffer(buf, size), modbus_send_size(size))

(* compute_response_size() without the byte for the bits left over. *)
compute_response_size_floor(q) ==
  LET offset == header_length
      fc == Rd(q, offset + 1)
      qty == Rd(q, offset + 4) * 256 + Rd(q, offset + 5)
      body == IF fc \in {FC_READ_COIL_STATUS, FC_READ_INPUT_STATUS}
                THEN 3 + (qty \div 8)
              ELSE IF fc \in {FC_READ_HOLDING_REGISTERS, FC_READ_INPUT_REGISTERS}
                THEN 3 + 2 * qty
              ELSE IF fc = FC_READ_EXCEPTION_STATUS
                THEN 4
              ELSE 6
  IN  body + offset + checksum_size

compute_response_size(q) ==
  LET offset == header_length
      fc == Rd(q, offset + 1)
      qty == Rd(q, offset + 4) * 256 + Rd(q, offset + 5)
      body == IF fc \in {FC_READ_COIL_STATUS, FC_READ_INPUT_STATUS}
                THEN 3 + (qty \div 8) + (IF qty % 8 # 0 THEN 1 ELSE 0)
              ELSE IF fc \in {FC_READ_HOLDING_REGISTERS, FC_READ_INPUT_REGISTERS}
                THEN 3 + 2 * qty
              ELSE IF fc = FC_READ_EXCEPTION_STATUS
                THEN 4
              ELSE 6
  IN  body + offset + checksum_size


(***************************************************************************)
(* error_treat(): the transport after the recovery side effect.  The       *)
(* transport is the record e = [rxq, inflight, pending, eof, conn, n,      *)
(* flushed, reconnected]; the result is the set of possible outcomes       *)
(* (modbus_connect may fail).                                              *)
(***************************************************************************)
error_treat(e) ==
  IF type_com = "RTU"
  THEN {[e EXCEPT !.rxq = <<>>, !.flushed = TRUE, !.n = e.n + 1]}
  ELSE IF error_handling = "RECONNECT_ON_ERROR"
  THEN {[e EXCEPT !.rxq = <<>>, !.inflight = <<>>, !.pending = <<>>,
                  !.eof = FALSE, !.reconnected = TRUE, !.n = e.n + 1,
                  !.conn = [gen |-> e.conn.gen + 1, open |-> ok]]
        : ok \in BOOLEAN}
  ELSE {[e EXCEPT !.n = e.n + 1]}

Treat(do, e) ==
  IF do THEN error_treat(e) ELSE {e}

Transport ==
  [rxq |-> rxq, inflight |-> inflight, pending |-> pending, eof |-> eof,
   conn |-> conn, n |-> nb_error_treat, flushed |-> flushed,
   reconnected |-> reconnected]

SetTransport(e) ==
  /\ rxq' = e.rxq
  /\ inflight' = e.inflight
  /\ pending' = e.pending
  /\ eof' = e.eof
  /\ conn' = e.conn
  /\ nb_error_treat' = e.n
  /\ flushed' = e.flushed
  /\ reconnected' = e.reconnected

(***************************************************************************)
(* receive_msg().                                                          *)
(***************************************************************************)
compute_query_size_header(function) ==
  IF function <= FC_FORCE_SINGLE_COIL THEN 4
  ELSE IF function \in {FC_FORCE_MULTIPLE_COILS, FC_PRESET_MULTIPLE_REGISTERS}
  THEN 5
  ELSE 0

compute_query_size_data(msg) ==
  LET function == Rd(msg, header_length + 1)
      byte == IF function \in {FC_FORCE_MULTIPLE_COILS,
                               FC_PRESET_MULTIPLE_REGISTERS}
              THEN Rd(msg, header_length + 6)
              ELSE 0
  IN  U8(byte + checksum_size)

(* WAIT_DATA() when every errno of a failed select() ends the receive. *)
wait_data_errno_fatal(errno) ==
  "SELECT_FAILURE"

(* WAIT_DATA() when select() returns -1: on EINTR it puts the descriptor  *)
(* back in the set and calls select() again, on any other errno it calls  *)
(* error_treat and returns SELECT_FAILURE.                                 *)
wait_data_errno(errno) ==
  IF errno = "EINTR" THEN "retry" ELSE "SELECT_FAILURE"

(* The locals on entry, up to the first WAIT_DATA. *)
receive_msg_entry(msg_size_computed) ==
  IF msg_size_computed = MSG_SIZE_UNDEFINED
  THEN [state |-> "FUNCTION", msg_size_computed |-> header_length + 2,
        size_to_read |-> header_length + 2, started |-> FALSE,
        returned |-> FALSE, ret |-> 0, received |-> 0, interrupts |-> 0]
  ELSE [state |-> "COMPLETE", msg_size_computed |-> msg_size_computed,
        size_to_read |-> msg_size_computed, started |-> FALSE,
        returned |-> FALSE, ret |-> 0, received |-> 0, interrupts |-> 0]

(* A read loop that asks for the whole message again after a short read. *)
size_to_read_whole(msg_size_computed, msg_size) ==
  msg_size_computed

(* A read loop that asks for nothing more after a short read. *)
size_to_read_none(msg_size_computed, msg_size) ==
  0

(* size_to_read after a read that left the message incomplete. *)
size_to_read_incomplete(msg_size_computed, msg_size) ==
  msg_size_computed - msg_size

(* One turn of the read loop for a read that returned chunk (read_ret > 0): *)
(* wait is TRUE when the loop goes back to WAIT_DATA.                      *)
receive_msg_read(r, msg, msg_size, chunk) ==
  LET size0 == IF r.started THEN msg_size ELSE 0
      size1 == size0 + Len(chunk)
      msg1 == Store(msg, size0, chunk)
      r1 == IF size1 < r.msg_size_computed
              THEN [r EXCEPT !.size_to_read =
                               size_to_read_incomplete(r.msg_size_computed, size1),
                             !.started = TRUE]
            ELSE IF r.state = "FUNCTION"
              THEN LET n == compute_query_size_header(Rd(msg1, header_length + 1))
                   IN [r EXCEPT !.state = "BYTE", !.size_to_read = n,
                                !.msg_size_computed = r.msg_size_computed + n,
                                !.started = TRUE]
            ELSE IF r.state = "BYTE"
              THEN LET n == compute_query_size_data(msg1)
                   IN [r EXCEPT !.state = "COMPLETE", !.size_to_read = n,
                                !.msg_size_computed = r.msg_size_computed + n,
                                !.started = TRUE]
            ELSE [r EXCEPT !.size_to_read = 0, !.started = TRUE]
  IN  IF size1 > MAX_PACKET_SIZE
      THEN [wait |-> FALSE, ret |-> TOO_MANY_DATAS, treat |-> TRUE,
            rx |-> [r EXCEPT !.started = TRUE],
            msg |-> msg1, msg_size |-> size1]
      ELSE [wait |-> r1.size_to_read > 0, ret |-> 0, treat |-> FALSE,
            rx |-> r1, msg |-> msg1, msg_size |-> size1]

(* The other ways out of receive_msg: what it returns and whether it      *)
(* called error_treat.  *msg_size is set to 0 once the first WAIT_DATA    *)
(* has passed.                                                             *)
receive_msg_fail(r, msg, msg_size, how) ==
  LET passed == r.started \/ how \in {"read_error", "read_zero"}
  IN  [wait |-> FALSE,
       ret |-> CASE how = "timeout" -> COMM_TIME_OUT
                 [] how = "select_error" -> SELECT_FAILURE
                 [] how = "read_error" -> PORT_SOCKET_FAILURE
                 [] how = "read_zero" -> CONNECTION_CLOSED,
       treat |-> how \in {"select_error", "read_error"},
       rx |-> [r EXCEPT !.started = passed],
       msg |-> msg,
       msg_size |-> IF r.started THEN msg_size ELSE IF passed THEN 0 ELSE msg_size]


(***************************************************************************)
(* modbus_check_response(), from the return of receive_msg on: ret is the  *)
(* value of receive_msg, resp and rsize the response buffer and the local  *)
(* response_size after it.  treat: error_treat was called here;            *)
(* bad_free: free() was called on the stack buffer s_error.                *)
(***************************************************************************)
modbus_check_response(q, ret, resp, rsize) ==
  LET offset == header_length
      fc == Rd(resp, offset + 1)
  IN  IF ret = 0
      THEN IF ~check_crc16(resp, rsize)
           THEN [ret |-> INVALID_CRC, treat |-> TRUE, bad_free |-> FALSE]
           ELSE [ret |-> IF fc \in {FC_READ_COIL_STATUS, FC_READ_INPUT_STATUS}
                           THEN Rd(resp, offset + 2)
                         ELSE IF fc \in {FC_READ_HOLDING_REGISTERS,
                                         FC_READ_INPUT_REGISTERS}
                           THEN Rd(resp, offset + 2) \div 2
                         ELSE IF fc \in {FC_FORCE_MULTIPLE_COILS,
                                         FC_PRESET_MULTIPLE_REGISTERS}
                           THEN Rd(resp, offset + 4) * 256 + Rd(resp, offset + 5)
                         ELSE IF fc = FC_REPORT_SLAVE_ID
                           THEN rsize
                         ELSE 1,
                 treat |-> FALSE, bad_free |-> FALSE]
      ELSE IF ret = COMM_TIME_OUT /\ rsize = offset + 3 + checksum_size
      THEN IF ~check_crc16(resp, rsize)
           THEN [ret |-> INVALID_CRC, treat |-> TRUE, bad_free |-> FALSE]
           ELSE IF 128 + Rd(q, offset + 1) = Rd(resp, offset + 1)
           THEN IF Rd(resp, offset + 2) < NB_TAB_ERROR_MSG
                THEN [ret |-> 0 - Rd(resp, offset + 2), treat |-> TRUE,
                      bad_free |-> FALSE]
                ELSE [ret |-> INVALID_EXCEPTION_CODE, treat |-> TRUE,
                      bad_free |-> TRUE]
           ELSE [ret |-> rsize, treat |-> FALSE, bad_free |-> FALSE]
      ELSE IF ret = COMM_TIME_OUT
      THEN [ret |-> COMM_TIME_OUT, treat |-> TRUE, bad_free |-> FALSE]
      ELSE [ret |-> ret, treat |-> FALSE, bad_free |-> FALSE]

(* The local response_size when modbus_check_response returns: the switch *)
(* on the function code reassigns it on the good-response path only.      *)
response_size_after(q, ret, resp, rsize) ==
  IF ret = 0 /\ check_crc16(resp, rsize)
  THEN modbus_check_response(q, ret, resp, rsize).ret
  ELSE rsize

(***************************************************************************)
(* Master operations.  An operation is [fn, slave, addr, count, src]:      *)
(* count is the quantity (the value for the single writes), src the        *)
(* caller's source array for the multiple writes.                          *)
(***************************************************************************)
ReadBitFns ==
  {"read_coil_status", "read_input_status"}

ReadRegFns ==
  {"read_holding_registers", "read_input_registers"}

FunctionOf(o) ==
  CASE o.fn = "read_coil_status" -> FC_READ_COIL_STATUS
    [] o.fn = "read_input_status" -> FC_READ_INPUT_STATUS
    [] o.fn = "read_holding_registers" -> FC_READ_HOLDING_REGISTERS
    [] o.fn = "read_input_registers" -> FC_READ_INPUT_REGISTERS
    [] o.fn = "force_single_coil" -> FC_FORCE_SINGLE_COIL
    [] o.fn = "preset_single_register" -> FC_PRESET_SINGLE_REGISTER
    [] o.fn = "force_multiple_coils" -> FC_FORCE_MULTIPLE_COILS
    [] o.fn = "preset_multiple_registers" -> FC_PRESET_MULTIPLE_REGISTERS
    [] o.fn = "report_slave_id" -> FC_REPORT_SLAVE_ID

(* An operation that sends the caller's quantity whatever it is. *)
UnclampedCount(o) ==
  CASE o.fn = "force_single_coil" ->
         IF o.count # 0 THEN 65280 ELSE 0
    [] o.fn = "report_slave_id" -> 0
    [] OTHER -> o.count

(* The quantity after the clamping done by the operation. *)
ClampedCount(o) ==
  CASE o.fn = "read_holding_registers" ->
         IF o.count > MAX_READ_HOLD_REGS THEN MAX_READ_HOLD_REGS ELSE o.count
    [] o.fn = "read_input_registers" ->
         IF o.count > MAX_READ_INPUT_REGS THEN MAX_READ_INPUT_REGS ELSE o.count
    [] o.fn = "preset_multiple_registers" ->
         IF o.count > MAX_WRITE_REGS THEN MAX_WRITE_REGS ELSE o.count
    [] o.fn = "force_multiple_coils" ->
         IF o.count > MAX_WRITE_COILS THEN MAX_WRITE_COILS ELSE o.count
    [] o.fn = "force_single_coil" ->
         IF o.count # 0 THEN 65280 ELSE 0
    [] o.fn = "report_slave_id" -> 0
    [] OTHER -> o.count

(* force_multiple_coils: data byte i of the query packs eight sources. *)
RECURSIVE PackBits(_, _, _, _)
PackBits(src, first, n, bit) ==
  IF n = 0 \/ bit > 128 THEN 0
  ELSE (IF src[first + 1] # 0 THEN bit ELSE 0)
       + PackBits(src, first + 1, n - 1, 2 * bit)

(* The request buffer and the size handed to modbus_send. *)
BuildQuery(o, tid) ==
  LET count == ClampedCount(o)
      head == build_query_packet(tid, o.slave, FunctionOf(o),
                                 IF o.fn = "report_slave_id" THEN 0 ELSE o.addr,
                                 count)
      size == Len(head)
  IN  CASE o.fn = "force_multiple_coils" ->
             LET byte_count == (count \div 8) + (IF count % 8 # 0 THEN 1 ELSE 0)
                 data == [i \in 1..byte_count |->
                            PackBits(o.src, 8 * (i - 1), count - 8 * (i - 1), 1)]
             IN  [buf |-> head \o <<U8(byte_count)>> \o data,
                  size |-> size + 1 + byte_count]
        [] o.fn = "preset_multiple_registers" ->
             LET data == [i \in 1..(2 * count) |->
                            IF i % 2 = 1 THEN Hi(o.src[(i + 1) \div 2])
                                         ELSE Lo(o.src[i \div 2])]
             IN  [buf |-> head \o <<U8(count * 2)>> \o data,
                  size |-> size + 1 + 2 * count]
        [] o.fn = "report_slave_id" ->
             [buf |-> head, size |-> size - 4]
        [] OTHER ->
             [buf |-> head, size |-> size]

(* A decoder that takes the first item from the top bit of the byte. *)
read_io_status_dest_msb(count, response_ret, resp) ==
  LET nbits == Min(Max(count, 0), 8 * Max(response_ret, 0))
  IN  [p \in 1..nbits |->
         IF BitAnd(Rd(resp, 3 + header_length + ((p - 1) \div 8)),
                   Pow2(7 - ((p - 1) % 8))) # 0
         THEN 1 ELSE 0]

(* read_io_status(): the slots of data_dest its two loops write, one per  *)
(* bit of the response_ret bytes after the byte count, low bit first,     *)
(* until count slots are written.                                         *)
read_io_status_dest(count, response_ret, resp) ==
  LET nbits == Min(Max(count, 0), 8 * Max(response_ret, 0))
  IN  [p \in 1..nbits |->
         IF BitAnd(Rd(resp, 3 + header_length + ((p - 1) \div 8)),
                   Pow2((p - 1) % 8)) # 0
         THEN 1 ELSE 0]

(* A decoder that takes the low byte of a register first. *)
read_reg_response_dest_swapped(response_ret, resp) ==
  [p \in 1..Max(response_ret, 0) |->
     Rd(resp, header_length + 4 + 2 * (p - 1)) * 256
     + Rd(resp, header_length + 3 + 2 * (p - 1))]

(* A decoder whose loop runs over the magnitude of response_ret. *)
read_reg_response_dest_magnitude(response_ret, resp) ==
  [p \in 1..(IF response_ret < 0 THEN 0 - response_ret ELSE response_ret) |->
     Rd(resp, header_length + 3 + 2 * (p - 1)) * 256
     + Rd(resp, header_length + 4 + 2 * (p - 1))]

(* read_reg_response(): the slots of data_dest its loop writes. *)
read_reg_response_dest(response_ret, resp) ==
  [p \in 1..Max(response_ret, 0) |->
     Rd(resp, header_length + 3 + 2 * (p - 1)) * 256
     + Rd(resp, header_length + 4 + 2 * (p - 1))]

(* What the operation does with the value of modbus_check_response:       *)
(* the slots of data_dest it writes and the value it returns.             *)
Epilogue(o, response_ret, resp) ==
  LET offset == header_length
  IN  CASE o.fn \in ReadBitFns ->
             [dest |-> read_io_status_dest(o.count, response_ret, resp),
              result |-> IF response_ret > 0 THEN o.count ELSE response_ret]
        [] o.fn \in ReadRegFns ->
             [dest |-> read_reg_response_dest(response_ret, resp),
              result |-> response_ret]
        [] o.fn = "report_slave_id" ->
             [dest |-> IF response_ret > 0
                       THEN [p \in 1..(offset + response_ret) |->
                               IF p - 1 < offset THEN junk
                               ELSE Rd(resp, p - 1)]
                       ELSE <<>>,
              result |-> response_ret]
        [] OTHER ->
             [dest |-> <<>>, result |-> response_ret]


(***************************************************************************)
(* The peer of a master: an arbitrary device on the other end.  It sees    *)
(* the request frame req and answers with one of these frames.             *)
(***************************************************************************)
Envelope(tid, pdu) ==
  IF type_com = "RTU"
  THEN LET c == crc16(pdu) IN pdu \o <<Hi(c), Lo(c)>>
  ELSE <<Hi(tid), Lo(tid), 0, 0, Hi(Len(pdu)), Lo(Len(pdu))>> \o pdu

PeerBits == <<205, 107>>

PeerWords == <<174, 65, 86, 82, 67, 64>>

ReqTid(req) ==
  IF type_com = "RTU" THEN 0 ELSE req[1] * 256 + req[2]

ReqUnit(req) == req[header_length + 1]

ReqFc(req) == req[header_length + 2]

ReqQty(req) ==
  IF Len(req) >= header_length + 6
  THEN req[header_length + 5] * 256 + req[header_length + 6]
  ELSE 0

GoodPdu(req) ==
  LET unit == ReqUnit(req)
      fc == ReqFc(req)
      qty == ReqQty(req)
      nbytes == (qty \div 8) + (IF qty % 8 # 0 THEN 1 ELSE 0)
  IN  IF fc \in {FC_READ_COIL_STATUS, FC_READ_INPUT_STATUS}
      THEN <<unit, fc, U8(nbytes)>>
           \o [i \in 1..nbytes |-> PeerBits[((i - 1) % 2) + 1]]
      ELSE IF fc \in {FC_READ_HOLDING_REGISTERS, FC_READ_INPUT_REGISTERS}
      THEN <<unit, fc, U8(2 * qty)>>
           \o [i \in 1..(2 * qty) |-> PeerWords[((i - 1) % 6) + 1]]
      ELSE IF fc = FC_REPORT_SLAVE_ID
      THEN <<unit, fc, 3, 9, 255, 1>>
      ELSE SubSeq(req, header_length + 1, header_length + 6)

ExceptionPdu(req, k) ==
  <<ReqUnit(req), U8(ReqFc(req) + 128), k>>

ExceptionFrame(req, k) ==
  Envelope(ReqTid(req), ExceptionPdu(req, k))

GoodFrame(req) ==
  Envelope(ReqTid(req), GoodPdu(req))

(* A frame with its last byte damaged. *)
Damaged(frame) ==
  [frame EXCEPT ![Len(frame)] = BitXor(frame[Len(frame)], 1)]

(* The answer to a write whose address field is not the one requested. *)
Misechoed(req) ==
  Envelope(ReqTid(req), [GoodPdu(req) EXCEPT ![4] = BitXor(@, 1)])

Replies(req, K) ==
  {GoodFrame(req)}
  \cup (IF ReqFc(req) \in {FC_FORCE_SINGLE_COIL, FC_PRESET_SINGLE_REGISTER,
                          FC_FORCE_MULTIPLE_COILS, FC_PRESET_MULTIPLE_REGISTERS}
        THEN {Misechoed(req)} ELSE {})
  \cup {ExceptionFrame(req, k) : k \in K}
  \cup {SubSeq(GoodFrame(req), 1, header_length + 2)}
  \cup {Envelope(ReqTid(req), <<ReqUnit(req), ReqFc(req), 0>>)}
  \cup (IF type_com = "RTU"
        THEN {Damaged(GoodFrame(req)), Damaged(ExceptionFrame(req, 2)),
              GoodPdu(req) \o <<229, 35>>}
        ELSE {Envelope(next_t_id(ReqTid(req)), GoodPdu(req))})


(***************************************************************************)
(* Inputs.                                                                 *)
(***************************************************************************)
JunkBytes == {0, 255}

UninitInts == {0, 5, 9}

ExceptionCodes == 0..12

ArriveSplits == {1, 5}

NoRx ==
  [state |-> "COMPLETE", msg_size_computed |-> 0, size_to_read |-> 0,
   started |-> FALSE, returned |-> FALSE, ret |-> 0, received |-> 0,
   interrupts |-> 0]

NoMapping ==
  [nb_coil_status |-> 0, nb_input_status |-> 0, nb_holding_registers |-> 0,
   nb_input_registers |-> 0, tab_coil_status |-> <<>>,
   tab_input_status |-> <<>>, tab_holding_registers |-> <<>>,
   tab_input_registers |-> <<>>]

NoSrv ==
  [query |-> <<>>, query_size |-> 0, listen_ret |-> 0, answered |-> FALSE,
   request |-> <<>>, response |-> <<>>, oob_read |-> FALSE,
   oob_write |-> FALSE, overflow |-> FALSE, before |-> NoMapping]

NoOp ==
  [fn |-> "none", slave |-> 0, addr |-> 0, count |-> 0, src |-> <<>>]

Ops ==
  {[fn |-> f, slave |-> 17, addr |-> 19, count |-> c, src |-> <<>>] :
     f \in ReadBitFns, c \in {0, 10}}
  \cup {[fn |-> f, slave |-> 17, addr |-> 107, count |-> c, src |-> <<>>] :
     f \in ReadRegFns, c \in {0, 3}}
  \cup {[fn |-> "force_single_coil", slave |-> 17, addr |-> 172, count |-> c,
         src |-> <<>>] : c \in {0, 1}}
  \cup {[fn |-> "preset_single_register", slave |-> 17, addr |-> 1,
         count |-> 3, src |-> <<>>],
        [fn |-> "force_multiple_coils", slave |-> 17, addr |-> 19,
         count |-> 10, src |-> <<1, 0, 1, 1, 0, 0, 1, 1, 1, 0>>],
        [fn |-> "preset_multiple_registers", slave |-> 17, addr |-> 1,
         count |-> 2, src |-> <<10, 258>>],
        [fn |-> "report_slave_id", slave |-> 17, addr |-> 0, count |-> 0,
         src |-> <<>>]}

SeqOps ==
  {[fn |-> "read_holding_registers", slave |-> 17, addr |-> 107, count |-> 1,
    src |-> <<>>]}

SeqExceptionCodes == {0, 2}

(***************************************************************************)
(* Master actions.                                                         *)
(***************************************************************************)
(* The end of an operation: r is what receive_msg returned, e the          *)
(* transport after its reads.                                              *)
Finish(r, e) ==
  LET cr == modbus_check_response(query, r.ret, r.msg, r.msg_size)
      ep == Epilogue(op, cr.ret, r.msg)
  IN  /\ \E e1 \in Treat(r.treat \/ cr.treat, e) : SetTransport(e1)
      /\ response' = r.msg
      /\ response_size' = response_size_after(query, r.ret, r.msg, r.msg_size)
      /\ rx' = [r.rx EXCEPT !.returned = TRUE, !.ret = r.ret,
                            !.received = IF r.rx.started THEN r.msg_size ELSE 0]
      /\ result' = ep.result
      /\ data_dest' = ep.dest
      /\ pc' \in (IF cr.bad_free THEN {"done", "aborted"} ELSE {"done"})

(* A master operation up to the first WAIT_DATA of receive_msg: it builds *)
(* the request, sends it and, when the send failed, returns.  The buffer  *)
(* response and the local response_size are not initialised: they hold    *)
(* what the stack held, the values of the previous call or one of U.      *)
MasterCall(o, U) ==
  /\ pc = "idle"
  /\ LET tid == IF type_com = "TCP" THEN next_t_id(t_id) ELSE t_id
         b == BuildQuery(o, tid)
         buf == modbus_send_buffer(b.buf, b.size)
         frame == View(buf, modbus_send_size(b.size))
         e0 == [Transport EXCEPT !.n = 0, !.flushed = FALSE,
                                 !.reconnected = FALSE]
     IN  /\ t_id' = tid
         /\ op' = o
         /\ calls' = calls + 1
         /\ query' = buf
         /\ query_size' = modbus_send_size(b.size)
         /\ consumed' = {}
         /\ data_dest' = <<>>
         /\ \E ok \in (IF conn.open THEN BOOLEAN ELSE {FALSE}) :
              IF ok
              THEN /\ sent' = modbus_send_wire(sent, frame)
                   /\ SetTransport([e0 EXCEPT !.pending =
                        Append(e0.pending, [n |-> calls + 1, frame |-> frame])])
                   /\ pc' = "recv"
                   /\ rx' = receive_msg_entry(compute_response_size(buf))
                   /\ response' \in {response, <<>>}
                   /\ response_size' \in {response_size} \cup U
                   /\ result' = 0
              ELSE /\ \E e1 \in error_treat(e0) : SetTransport(e1)
                   /\ pc' = "done"
                   /\ result' = PORT_SOCKET_FAILURE
                   /\ rx' = NoRx
                   /\ UNCHANGED <<sent, response, response_size>>
  /\ UNCHANGED <<heap, type_com, error_handling, resp_t_id, junk, mb_mapping, srv>>

(* select() reports data and read()/recv() returns some of it. *)
MasterRead ==
  /\ pc = "recv"
  /\ rxq # <<>>
  /\ LET n == Min(rx.size_to_read, Len(rxq))
         chunk == SubSeq(rxq, 1, n)
         r == receive_msg_read(rx, response, response_size, Bytes(chunk))
         e == [Transport EXCEPT !.rxq = SubSeq(rxq, n + 1, Len(rxq))]
     IN  /\ consumed' = consumed \cup Tags(chunk)
         /\ IF r.wait
            THEN /\ SetTransport(e)
                 /\ rx' = r.rx
                 /\ response' = r.msg
                 /\ response_size' = r.msg_size
                 /\ UNCHANGED <<pc, result, data_dest>>
            ELSE Finish(r, e)
  /\ UNCHANGED <<heap, type_com, error_handling, t_id, resp_t_id, junk, op, calls,
                 query, query_size, sent, mb_mapping, srv>>

MasterFail(how) ==
  /\ pc = "recv"
  /\ Finish(receive_msg_fail(rx, response, response_size, how), Transport)
  /\ UNCHANGED <<heap, type_com, error_handling, t_id, resp_t_id, junk, op, calls,
                 query, query_size, sent, consumed, mb_mapping, srv>>

(* select() returns 0: nothing arrived within the timeout. *)
MasterTimeout ==
  /\ rxq = <<>>
  /\ ~(eof /\ inflight = <<>>)
  /\ MasterFail("timeout")

(* read()/recv() returns 0 on a closed connection. *)
MasterReadZero ==
  /\ rxq = <<>>
  /\ inflight = <<>>
  /\ eof
  /\ MasterFail("read_zero")

(* read()/recv() returns -1. *)
MasterReadError ==
  /\ conn.open
  /\ MasterFail("read_error")

(* select() returns -1 with an errno other than EINTR. *)
MasterSelectError ==
  /\ conn.open
  /\ MasterFail("select_error")

(* The caller takes the result and is ready for the next call. *)
MasterReturn ==
  /\ pc = "done"
  /\ calls < MaxCalls
  /\ pc' = "idle"
  /\ UNCHANGED <<heap, type_com, error_handling, conn, t_id, resp_t_id, junk,
                 rxq, inflight, eof, pending, rx, op, calls,
                 query, query_size, response, response_size, data_dest, result,
                 sent, nb_error_treat, flushed, reconnected, consumed,
                 mb_mapping, srv>>

(***************************************************************************)
(* The environment of the descriptor.                                      *)
(***************************************************************************)
(* The peer answers the oldest request it has.  What the environment does *)
(* while the caller holds a result is the same as what it does once the   *)
(* caller is idle again, so it is only modelled there; for a server, what *)
(* arrives between two calls of modbus_listen is what arrives at the      *)
(* start of the second.                                                   *)
PeerReply(K) ==
  /\ pc \notin {"done", "aborted"}
  /\ pending # <<>>
  /\ ~eof
  /\ \E f \in Replies(pending[1].frame, K) :
       inflight' = inflight \o Tagged(f, pending[1].n)
  /\ pending' = Tail(pending)
  /\ UNCHANGED <<heap, type_com, error_handling, conn, t_id, resp_t_id, junk,
                 rxq, eof, pc, rx, op, calls,
                 query, query_size, response, response_size, data_dest, result,
                 sent, nb_error_treat, flushed, reconnected, consumed,
                 mb_mapping, srv>>

(* The peer answers the request and sends one more frame, the same reply  *)
(* again or an exception, right behind it.                                 *)
PeerReplyStream ==
  /\ pc = "recv"
  /\ pending # <<>>
  /\ ~eof
  /\ \E f \in {GoodFrame(pending[1].frame),
               ExceptionFrame(pending[1].frame, 2)} :
       inflight' = inflight \o Tagged(GoodFrame(pending[1].frame), pending[1].n)
                            \o Tagged(f, pending[1].n + 1)
  /\ pending' = Tail(pending)
  /\ UNCHANGED <<heap, type_com, error_handling, conn, t_id, resp_t_id, junk,
                 rxq, eof, pc, rx, op, calls,
                 query, query_size, response, response_size, data_dest, result,
                 sent, nb_error_treat, flushed, reconnected, consumed,
                 mb_mapping, srv>>

(* The function code whose normal response has the layout of fc's.        *)
SiblingFunction(fc) ==
  IF fc \in {FC_READ_COIL_STATUS, FC_READ_HOLDING_REGISTERS,
             FC_FORCE_SINGLE_COIL, FC_FORCE_MULTIPLE_COILS}
  THEN fc + 1
  ELSE IF fc \in {FC_READ_INPUT_STATUS, FC_READ_INPUT_REGISTERS,
                  FC_PRESET_SINGLE_REGISTER, FC_PRESET_MULTIPLE_REGISTERS}
       THEN fc - 1
       ELSE FC_READ_EXCEPTION_STATUS

(* What arrives on a shared line: the reply to the request, the frame      *)
(* another unit sends, or the response to another function.                *)
ForeignReplies(req) ==
  {GoodFrame(req),
   Envelope(ReqTid(req), [GoodPdu(req) EXCEPT ![1] = U8(ReqUnit(req) + 1)]),
   Envelope(ReqTid(req), [GoodPdu(req) EXCEPT ![2] = SiblingFunction(ReqFc(req))])}

PeerReplyForeign ==
  /\ pc = "recv"
  /\ pending # <<>>
  /\ ~eof
  /\ \E f \in ForeignReplies(pending[1].frame) :
       inflight' = inflight \o Tagged(f, pending[1].n)
  /\ pending' = Tail(pending)
  /\ UNCHANGED <<heap, type_com, error_handling, conn, t_id, resp_t_id, junk,
                 rxq, eof, pc, rx, op, calls,
                 query, query_size, response, response_size, data_dest, result,
                 sent, nb_error_treat, flushed, reconnected, consumed,
                 mb_mapping, srv>>

(* Bytes on their way reach the input queue of the descriptor. *)
Arrive ==
  /\ pc \notin {"done", "aborted", "srv_idle"}
  /\ inflight # <<>>
  /\ \E n \in {Len(inflight)} \cup {k \in ArriveSplits : k < Len(inflight)} :
       /\ rxq' = rxq \o SubSeq(inflight, 1, n)
       /\ inflight' = SubSeq(inflight, n + 1, Len(inflight))
  /\ UNCHANGED <<heap, type_com, error_handling, conn, t_id, resp_t_id, junk,
                 eof, pending, pc, rx, op, calls,
                 query, query_size, response, response_size, data_dest, result,
                 sent, nb_error_treat, flushed, reconnected, consumed,
                 mb_mapping, srv>>

(* The peer closes the connection (TCP) or the line hangs up (RTU). *)
PeerClose ==
  /\ ~eof
  /\ conn.open
  /\ pc \in {"recv", "srv_recv"}
  /\ eof' = TRUE
  /\ pending' = <<>>
  /\ UNCHANGED <<heap, type_com, error_handling, conn, t_id, resp_t_id, junk,
                 rxq, inflight, pc, rx, op, calls,
                 query, query_size, response, response_size, data_dest, result,
                 sent, nb_error_treat, flushed, reconnected, consumed,
                 mb_mapping, srv>>

(***************************************************************************)
(* Server dispatch: manage_query().                                        *)
(***************************************************************************)
(* tab[i] for an 8-bit table and for a 16-bit table; an index outside the *)
(* table reads memory nobody initialised.                                 *)
TabRd8(tab, i) ==
  IF i >= 0 /\ i < Len(tab) THEN tab[i + 1] ELSE junk

TabRd16(tab, i) ==
  IF i >= 0 /\ i < Len(tab) THEN tab[i + 1] ELSE junk * 256 + junk

(* One byte of response_io_status: up to eight table entries, each        *)
(* shifted to its place and or-ed into a uint8_t.                         *)
RECURSIVE IoByte(_, _, _, _)
IoByte(tab, first, n, shift) ==
  IF n <= 0 \/ shift > 7 THEN 0
  ELSE BitOr(U8(TabRd8(tab, first) * Pow2(shift)),
             IoByte(tab, first + 1, n - 1, shift + 1))

(* response_io_status(): the bytes it stores from offset on.  Its address *)
(* parameter is a uint8_t, its count a uint16_t.                          *)
response_io_status(address, count, tab) ==
  LET a == U8(address)
      c == U16(count)
      nbytes == (c \div 8) + (IF c % 8 # 0 THEN 1 ELSE 0)
  IN  [i \in 1..nbytes |-> IoByte(tab, a + 8 * (i - 1), c - 8 * (i - 1), 0)]

(* The bytes the register loops of manage_query store. *)
response_registers(address, count, tab) ==
  [i \in 1..(2 * count) |->
     IF i % 2 = 1 THEN U8(TabRd16(tab, address + ((i - 1) \div 2)) \div 256)
                  ELSE TabRd16(tab, address + ((i - 1) \div 2)) % 256]

(* manage_query() up to its call of modbus_send: the response buffer, the *)
(* size it passes, the map, the counter of build_response_packet_tcp, and *)
(* whether it read or wrote outside a table.                              *)
manage_query(q, q_size, m, tid) ==
  LET offset == header_length
      slave == Rd(q, offset)
      function == Rd(q, offset + 1)
      address == Rd(q, offset + 2) * 256 + Rd(q, offset + 3)
      field == Rd(q, offset + 4) * 256 + Rd(q, offset + 5)
      tid1 == IF type_com = "TCP" THEN next_t_id(tid) ELSE tid
      bits_count == (field \div 8) + (IF field % 8 # 0 THEN 1 ELSE 0)
      Read(byte_count, data, oob) ==
        LET resp == build_response_packet(tid1, slave, function, byte_count)
                    \o data
        IN  [response |-> resp, offset |-> Len(resp), mapping |-> m,
             tid |-> tid1, oob_read |-> oob, oob_write |-> FALSE]
  IN  CASE function = FC_READ_COIL_STATUS ->
             Read(bits_count,
                  response_io_status(address, field, m.tab_coil_status),
                  field > 0 /\ U8(address) + field > m.nb_coil_status)
        [] function = FC_READ_INPUT_STATUS ->
             Read(bits_count,
                  response_io_status(address, field, m.tab_input_status),
                  field > 0 /\ U8(address) + field > m.nb_input_status)
        [] function = FC_READ_HOLDING_REGISTERS ->
             Read(2 * field,
                  response_registers(address, field, m.tab_holding_registers),
                  field > 0 /\ address + field > m.nb_holding_registers)
        [] function = FC_READ_INPUT_REGISTERS ->
             Read(2 * field,
                  response_registers(address, field, m.tab_input_registers),
                  field > 0 /\ address + field > m.nb_input_registers)
        [] function = FC_FORCE_SINGLE_COIL ->
             LET inside == address < m.nb_coil_status
                 writes == field \in {65280, 0}
                 value == IF field = 65280 THEN ON ELSE OFF
             IN  [response |-> View(q, q_size), offset |-> q_size,
                  mapping |-> IF inside /\ writes
                              THEN [m EXCEPT !.tab_coil_status[address + 1] = value]
                              ELSE m,
                  tid |-> tid, oob_read |-> FALSE,
                  oob_write |-> writes /\ ~inside]
        [] OTHER ->
             [response |-> <<>>, offset |-> offset, mapping |-> m,
              tid |-> tid, oob_read |-> FALSE, oob_write |-> FALSE]

(***************************************************************************)
(* Server inputs: the register map and the requests of the client.         *)
(***************************************************************************)
NbCoils == 258

NbInputStatus == 10

CoilSets == {{0, 2, 3, 257}, {1, 256}}

Mappings ==
  {[nb_coil_status |-> NbCoils, nb_input_status |-> NbInputStatus,
    nb_holding_registers |-> 4, nb_input_registers |-> 2,
    tab_coil_status |-> [i \in 1..NbCoils |-> IF (i - 1) \in on THEN ON ELSE OFF],
    tab_input_status |-> [i \in 1..NbInputStatus |-> IF i % 3 = 1 THEN ON ELSE OFF],
    tab_holding_registers |-> <<44609, 22098, 17216, 0>>,
    tab_input_registers |-> <<10, 258>>] : on \in CoilSets}

ClientTids == {1, 7}

(* [unit, fc, address, quantity or value] and what follows it. *)
Pdu(fc, address, field, rest) ==
  <<17, fc, Hi(address), Lo(address), Hi(field), Lo(field)>> \o rest

ClientPdus ==
  {Pdu(FC_READ_COIL_STATUS, 0, 10, <<>>),
   Pdu(FC_READ_COIL_STATUS, 255, 3, <<>>),
   Pdu(FC_READ_COIL_STATUS, 256, 2, <<>>),
   Pdu(FC_READ_INPUT_STATUS, 1, 9, <<>>),
   Pdu(FC_READ_HOLDING_REGISTERS, 0, 3, <<>>),
   Pdu(FC_READ_HOLDING_REGISTERS, 3, 2, <<>>),
   Pdu(FC_READ_INPUT_REGISTERS, 1, 1, <<>>),
   Pdu(FC_FORCE_SINGLE_COIL, 1, 65280, <<>>),
   Pdu(FC_FORCE_SINGLE_COIL, 2, 0, <<>>),
   Pdu(FC_FORCE_SINGLE_COIL, 2, 4660, <<>>),
   Pdu(FC_FORCE_SINGLE_COIL, 300, 65280, <<>>),
   Pdu(FC_PRESET_SINGLE_REGISTER, 1, 3, <<>>),
   Pdu(FC_FORCE_MULTIPLE_COILS, 19, 10, <<2, 205, 1>>),
   Pdu(FC_PRESET_MULTIPLE_REGISTERS, 1, 2, <<4, 0, 10, 1, 2>>),
   <<17, FC_REPORT_SLAVE_ID>>}

ClientFrames ==
  LET good == {Envelope(t, pdu) : t \in ClientTids, pdu \in ClientPdus}
  IN  IF type_com = "RTU" THEN good \cup {Damaged(f) : f \in good} ELSE good

(***************************************************************************)
(* Server actions.                                                         *)
(***************************************************************************)
(* modbus_listen() up to the first WAIT_DATA of receive_msg. *)
SrvListen ==
  /\ pc = "srv_idle"
  /\ calls < MaxRequests
  /\ calls' = calls + 1
  /\ pc' = "srv_recv"
  /\ rx' = receive_msg_entry(MSG_SIZE_UNDEFINED)
  /\ consumed' = {}
  /\ srv' = NoSrv
  /\ sent' = <<>>
  /\ SetTransport([Transport EXCEPT !.n = 0, !.flushed = FALSE,
                                    !.reconnected = FALSE])
  /\ UNCHANGED <<heap, type_com, error_handling, t_id, resp_t_id, junk, op,
                 query, query_size, response, response_size, data_dest, result,
                 mb_mapping>>

(* The end of modbus_listen: r is what receive_msg returned.  The server  *)
(* loop hands an accepted request to manage_query and otherwise listens   *)
(* again.                                                                 *)
SrvFinish(r, e) ==
  LET crc_ok == check_crc16(r.msg, r.msg_size)
      ret == IF r.ret = 0 /\ ~crc_ok THEN INVALID_CRC ELSE r.ret
  IN  /\ \E e1 \in Treat(r.treat \/ (r.ret = 0 /\ ~crc_ok), e) : SetTransport(e1)
      /\ srv' = [srv EXCEPT !.query = r.msg, !.query_size = r.msg_size,
                            !.listen_ret = ret]
      /\ rx' = [r.rx EXCEPT !.returned = TRUE, !.ret = r.ret,
                            !.received = IF r.rx.started THEN r.msg_size ELSE 0]
      /\ pc' = IF ret = 0 THEN "srv_listened" ELSE "srv_idle"

SrvRead ==
  /\ pc = "srv_recv"
  /\ rxq # <<>>
  /\ LET n == Min(rx.size_to_read, Len(rxq))
         chunk == SubSeq(rxq, 1, n)
         r == receive_msg_read(rx, srv.query, srv.query_size, Bytes(chunk))
         e == [Transport EXCEPT !.rxq = SubSeq(rxq, n + 1, Len(rxq))]
     IN  /\ consumed' = consumed \cup Tags(chunk)
         /\ IF r.wait
            THEN /\ SetTransport(e)
                 /\ rx' = r.rx
                 /\ srv' = [srv EXCEPT !.query = r.msg, !.query_size = r.msg_size]
                 /\ UNCHANGED pc
            ELSE SrvFinish(r, e)
  /\ UNCHANGED <<heap, type_com, error_handling, t_id, resp_t_id, junk, op, calls,
                 query, query_size, response, response_size, data_dest, result,
                 sent, mb_mapping>>

SrvFail(how) ==
  /\ pc = "srv_recv"
  /\ SrvFinish(receive_msg_fail(rx, srv.query, srv.query_size, how), Transport)
  /\ UNCHANGED <<heap, type_com, error_handling, t_id, resp_t_id, junk, op, calls,
                 query, query_size, response, response_size, data_dest, result,
                 sent, consumed, mb_mapping>>

SrvTimeout ==
  /\ rxq = <<>>
  /\ ~(eof /\ inflight = <<>>)
  /\ SrvFail("timeout")

SrvReadZero ==
  /\ rxq = <<>>
  /\ inflight = <<>>
  /\ eof
  /\ SrvFail("read_zero")

SrvReadError ==
  /\ conn.open
  /\ SrvFail("read_error")

SrvSelectError ==
  /\ conn.open
  /\ SrvFail("select_error")

(* manage_query() on the request modbus_listen accepted; it answers       *)
(* through modbus_send.                                                   *)
ManageQuery ==
  /\ pc = "srv_listened"
  /\ srv.listen_ret = 0
  /\ LET r == manage_query(srv.query, srv.query_size, mb_mapping, resp_t_id)
         buf == modbus_send_buffer(r.response, r.offset)
         size == modbus_send_size(r.offset)
         frame == View(buf, size)
     IN  /\ mb_mapping' = r.mapping
         /\ resp_t_id' = r.tid
         /\ \E ok \in (IF conn.open THEN BOOLEAN ELSE {FALSE}) :
              /\ srv' = [srv EXCEPT !.answered = ok,
                                    !.request = View(srv.query, srv.query_size),
                                    !.response = frame,
                                    !.oob_read = r.oob_read,
                                    !.oob_write = r.oob_write,
                                    !.overflow = size > MAX_PACKET_SIZE,
                                    !.before = mb_mapping]
              /\ IF ok
                 THEN /\ sent' = modbus_send_wire(sent, frame)
                      /\ SetTransport(Transport)
                 ELSE /\ \E e1 \in error_treat(Transport) : SetTransport(e1)
                      /\ UNCHANGED sent
  /\ pc' = "srv_idle"
  /\ UNCHANGED <<heap, type_com, error_handling, t_id, junk, rx, op, calls,
                 query, query_size, response, response_size, data_dest, result,
                 consumed>>

(* The client sends a request while the server waits for one. *)
ClientSend ==
  /\ pc = "srv_recv"
  /\ ~rx.started
  /\ rxq = <<>>
  /\ inflight = <<>>
  /\ ~eof
  /\ \E f \in ClientFrames : inflight' = Tagged(f, calls)
  /\ UNCHANGED <<heap, type_com, error_handling, conn, t_id, resp_t_id, junk,
                 rxq, eof, pending, pc, rx, op, calls,
                 query, query_size, response, response_size, data_dest, result,
                 sent, nb_error_treat, flushed, reconnected, consumed,
                 mb_mapping, srv>>

(***************************************************************************)
(* A server whose client asks for quantities up to and past what a         *)
(* response can hold.                                                      *)
(***************************************************************************)
LargeQuantities == {1, 8, 125, 126, 129, 2000, 2041}

LargeFrames ==
  {Envelope(1, Pdu(fc, 0, qty, <<>>)) :
     fc \in FC_READ_COIL_STATUS..FC_READ_INPUT_REGISTERS,
     qty \in LargeQuantities}

ClientSendLarge ==
  /\ pc = "srv_recv"
  /\ ~rx.started
  /\ rxq = <<>>
  /\ inflight = <<>>
  /\ ~eof
  /\ \E f \in LargeFrames : inflight' = Tagged(f, calls)
  /\ UNCHANGED <<heap, type_com, error_handling, conn, t_id, resp_t_id, junk,
                 rxq, eof, pending, pc, rx, op, calls,
                 query, query_size, response, response_size, data_dest, result,
                 sent, nb_error_treat, flushed, reconnected, consumed,
                 mb_mapping, srv>>

(***************************************************************************)
(* A server that listens to a client sending a request of any function     *)
(* code; query is the request buffer of the client.                        *)
(***************************************************************************)
MaxInterrupts == 2

ListenFcs == (0..8) \cup {FC_FORCE_MULTIPLE_COILS, FC_PRESET_MULTIPLE_REGISTERS,
                          FC_REPORT_SLAVE_ID, 43, 131, 255}

ListenByteCounts(fc) ==
  IF fc = FC_FORCE_MULTIPLE_COILS THEN {0, 2, 255} ELSE {4}

ListenPdus ==
  {Pdu(fc, 19, 10, <<>>) :
     fc \in ListenFcs \ {FC_READ_EXCEPTION_STATUS, FC_FORCE_MULTIPLE_COILS,
                         FC_PRESET_MULTIPLE_REGISTERS, FC_REPORT_SLAVE_ID}}
  \cup {<<17, fc>> : fc \in {FC_READ_EXCEPTION_STATUS, FC_REPORT_SLAVE_ID}}
  \cup {Pdu(FC_FORCE_MULTIPLE_COILS, 19, 8 * b,
            <<b>> \o [i \in 1..b |-> (i * 7) % 256]) :
          b \in ListenByteCounts(FC_FORCE_MULTIPLE_COILS)}
  \cup {Pdu(FC_PRESET_MULTIPLE_REGISTERS, 1, b \div 2,
            <<b>> \o [i \in 1..b |-> (i * 7) % 256]) :
          b \in ListenByteCounts(FC_PRESET_MULTIPLE_REGISTERS)}

ListenFrames ==
  {Envelope(1, pdu) : pdu \in ListenPdus}

(* The client builds a request and sends it while the server waits. *)
ClientSendListen ==
  /\ pc = "srv_recv"
  /\ ~rx.started
  /\ query = <<>>
  /\ ~eof
  /\ \E f \in ListenFrames :
       /\ inflight' = Tagged(f, calls)
       /\ query' = f
       /\ query_size' = Len(f)
  /\ UNCHANGED <<heap, type_com, error_handling, conn, t_id, resp_t_id, junk,
                 rxq, eof, pending, pc, rx, op, calls,
                 response, response_size, data_dest, result,
                 sent, nb_error_treat, flushed, reconnected, consumed,
                 mb_mapping, srv>>

(* A signal interrupts select(): it returns -1 with errno EINTR. *)
SrvSelectInterrupted ==
  /\ pc = "srv_recv"
  /\ conn.open
  /\ rx.interrupts < MaxInterrupts
  /\ IF wait_data_errno("EINTR") = "retry"
     THEN /\ rx' = [rx EXCEPT !.interrupts = @ + 1]
          /\ UNCHANGED <<heap, type_com, error_handling, conn, t_id, resp_t_id,
                         junk, rxq, inflight, eof, pending, pc, op, calls,
                         query, query_size, response, response_size,
                         data_dest, result, sent, nb_error_treat, flushed,
                         reconnected, consumed, mb_mapping, srv>>
     ELSE SrvFail("select_error")

(***************************************************************************)
(* compute_response_size on the query of any function code and quantity:  *)
(* result is the size for the query, response_size the size for the same  *)
(* query with the quantity one higher.                                    *)
(***************************************************************************)
SizeFcs == (0..24) \cup {43, 127, 128, 129, 131, 255}

SizeQuantities == {0, 1, 7, 8, 9, 15, 16, 17, 125, 255, 256, 2000, 2001,
                   32767, 32768, 65534}

SizeQuery(fc, qty) ==
  [i \in 1..header_length |-> 0] \o Pdu(fc, 19, qty, <<>>)

SizeQuantityOf(q) ==
  Rd(q, header_length + 4) * 256 + Rd(q, header_length + 5)

SizeCompute ==
  /\ pc = "size_idle"
  /\ result' = compute_response_size(query)
  /\ pc' = "size_done"
  /\ UNCHANGED <<heap, type_com, error_handling, conn, t_id, resp_t_id, junk,
                 rxq, inflight, eof, pending, rx, op, calls,
                 query, query_size, response, response_size, data_dest,
                 sent, nb_error_treat, flushed, reconnected, consumed,
                 mb_mapping, srv>>

SizeComputeNext ==
  /\ pc = "size_done"
  /\ query' = SizeQuery(Rd(query, header_length + 1), SizeQuantityOf(query) + 1)
  /\ response_size' = compute_response_size(query')
  /\ pc' = "size_next"
  /\ UNCHANGED <<heap, type_com, error_handling, conn, t_id, resp_t_id, junk,
                 rxq, inflight, eof, pending, rx, op, calls,
                 query_size, response, data_dest, result,
                 sent, nb_error_treat, flushed, reconnected, consumed,
                 mb_mapping, srv>>

(***************************************************************************)
(* modbus_send and check_crc16 on arbitrary byte strings.                  *)
(***************************************************************************)
MaxLen == 3

ByteAlphabet == {0, 1, 17, 255}

RECURSIVE ByteStringsOfLength(_)
ByteStringsOfLength(n) ==
  IF n = 0 THEN {<<>>}
  ELSE {Append(t, b) : t \in ByteStringsOfLength(n - 1), b \in ByteAlphabet}

ByteStrings ==
  UNION {ByteStringsOfLength(n) : n \in 0..MaxLen}

(* modbus_send() on the byte string held in query. *)
CrcSend ==
  /\ pc = "crc_idle"
  /\ query' = modbus_send_buffer(query, query_size)
  /\ query_size' = modbus_send_size(query_size)
  /\ \E ok \in (IF conn.open THEN BOOLEAN ELSE {FALSE}) :
       IF ok
       THEN /\ sent' = modbus_send_wire(sent,
                                      modbus_send_frame(query, query_size))
            /\ SetTransport(Transport)
            /\ result' = modbus_send_size(query_size)
       ELSE /\ \E e1 \in error_treat(Transport) : SetTransport(e1)
            /\ result' = PORT_SOCKET_FAILURE
            /\ UNCHANGED sent
  /\ pc' = "crc_sent"
  /\ UNCHANGED <<heap, type_com, error_handling, t_id, resp_t_id, junk, rx, op,
                 calls, response, response_size, data_dest, consumed,
                 mb_mapping, srv>>

(* check_crc16() on the bytes held in query: the byte string itself, or   *)
(* the frame modbus_send made of it.                                      *)
CrcCheck ==
  /\ pc \in {"crc_idle", "crc_sent"}
  /\ type_com = "RTU" => query_size >= CHECKSUM_SIZE_RTU
  /\ LET ok == check_crc16(query, query_size)
     IN  /\ result' = IF ok THEN 0 ELSE INVALID_CRC
         /\ \E e1 \in Treat(~ok, [Transport EXCEPT !.n = 0, !.flushed = FALSE,
                                                  !.reconnected = FALSE]) :
              SetTransport(e1)
  /\ pc' = IF pc = "crc_sent" THEN "crc_looped" ELSE "crc_checked"
  /\ UNCHANGED <<heap, type_com, error_handling, t_id, resp_t_id, junk, rx, op,
                 calls, query, query_size, response, response_size, data_dest,
                 sent, consumed, mb_mapping, srv>>

(***************************************************************************)
(* modbus_mapping_new() and modbus_mapping_free().  heap is what malloc    *)
(* and free did: live, the arrays allocated and not freed; failed, the     *)
(* arrays whose malloc returned NULL; null_write, whether memset wrote     *)
(* through a null pointer.                                                 *)
(***************************************************************************)
MappingArrays ==
  <<"tab_coil_status", "tab_input_status", "tab_holding_registers",
    "tab_input_registers">>

MappingSizes == {0, 2}

(* What malloc(n) can return: NULL when it fails, and for n = 0 either    *)
(* NULL or a pointer.                                                      *)
MallocResults == {"NULL", "pointer"}

(* The first allocation that returned NULL, 5 when there is none. *)
FirstNull(mallocs) ==
  IF \E i \in 1..4 : mallocs[i] = "NULL"
  THEN CHOOSE i \in 1..4 :
         /\ mallocs[i] = "NULL"
         /\ \A k \in 1..(i - 1) : mallocs[k] # "NULL"
  ELSE 5

(* modbus_mapping_new(): sizes are the four lengths asked for, mallocs    *)
(* what the four calls of malloc return.  The call stops at the first     *)
(* NULL, at k: the lengths up to k are stored, memset ran on the k-th     *)
(* pointer before it was tested, and the arrays before k are freed.       *)
modbus_mapping_new(m, sizes, mallocs) ==
  LET k == FirstNull(mallocs)
      zeros(i) == IF i < k THEN [x \in 1..sizes[i] |-> 0] ELSE <<>>
      nb(i, old) == IF i <= k THEN sizes[i] ELSE old
  IN  [mapping |->
         [nb_coil_status |-> nb(1, m.nb_coil_status),
          nb_input_status |-> nb(2, m.nb_input_status),
          nb_holding_registers |-> nb(3, m.nb_holding_registers),
          nb_input_registers |-> nb(4, m.nb_input_registers),
          tab_coil_status |-> zeros(1),
          tab_input_status |-> zeros(2),
          tab_holding_registers |-> zeros(3),
          tab_input_registers |-> zeros(4)],
       ret |-> IF k = 5 THEN 1 ELSE 0,
       live |-> IF k = 5 THEN {MappingArrays[i] : i \in 1..4} ELSE {},
       failed |-> IF k = 5 THEN {} ELSE {MappingArrays[k]},
       null_write |-> k < 5 /\ sizes[k] > 0]

NoHeap ==
  [live |-> {}, failed |-> {}, null_write |-> FALSE, sizes |-> <<>>]

(* The call of modbus_mapping_new.  A memset through a null pointer is    *)
(* undefined: the process is stopped by the fault, or the call goes on.   *)
MappingNew ==
  /\ pc = "map_idle"
  /\ \E sizes \in [1..4 -> MappingSizes], mallocs \in [1..4 -> MallocResults] :
       /\ LET r == modbus_mapping_new(mb_mapping, sizes, mallocs)
          IN  /\ mb_mapping' = r.mapping
              /\ result' = r.ret
              /\ heap' = [live |-> r.live, failed |-> r.failed,
                          null_write |-> r.null_write, sizes |-> sizes]
              /\ pc' \in (IF r.null_write THEN {"map_fault", "map_done"}
                          ELSE {"map_done"})
  /\ UNCHANGED <<type_com, error_handling, conn, t_id, resp_t_id, junk,
                 rxq, inflight, eof, pending, rx, op, calls,
                 query, query_size, response, response_size, data_dest,
                 sent, nb_error_treat, flushed, reconnected, consumed, srv>>

(* The call of modbus_mapping_free on a mapping that was allocated. *)
MappingFree ==
  /\ pc = "map_done"
  /\ result = 1
  /\ heap.live # {}
  /\ heap' = [heap EXCEPT !.live = {}]
  /\ pc' = "map_freed"
  /\ UNCHANGED <<type_com, error_handling, conn, t_id, resp_t_id, junk,
                 rxq, inflight, eof, pending, rx, op, calls,
                 query, query_size, response, response_size, data_dest, result,
                 sent, nb_error_treat, flushed, reconnected, consumed,
                 mb_mapping, srv>>

(***************************************************************************)
(* The bit utilities, and the packing and unpacking of bit arrays by the   *)
(* master and the server.  A role of its own: op.src is an array of 0/1    *)
(* values, query the bytes it was packed into, data_dest what was          *)
(* unpacked from them.                                                     *)
(***************************************************************************)
(* set_bits_from_bytes() with a shift that is never taken modulo 8. *)
set_bits_from_bytes_unreduced(dest, address, nb_bits, tab_byte) ==
  [i \in 1..Max(Len(dest), address + nb_bits) |->
     IF i > address /\ i <= address + nb_bits
     THEN IF BitAnd(tab_byte[((i - 1 - address) \div 8) + 1],
                    Pow2(i - 1 - address)) # 0
          THEN ON ELSE OFF
     ELSE Rd(dest, i - 1)]

(* set_bits_from_byte(): dest[address + i] for i = 0..7. *)
set_bits_from_byte(dest, address, value) ==
  [i \in 1..Max(Len(dest), address + 8) |->
     IF i > address /\ i <= address + 8
     THEN IF BitAnd(value, Pow2(i - 1 - address)) # 0 THEN ON ELSE OFF
     ELSE Rd(dest, i - 1)]

(* set_bits_from_bytes(): dest[i] for i = address..address + nb_bits - 1; *)
(* shift is (i - address) modulo 8.                                        *)
set_bits_from_bytes(dest, address, nb_bits, tab_byte) ==
  [i \in 1..Max(Len(dest), address + nb_bits) |->
     IF i > address /\ i <= address + nb_bits
     THEN IF BitAnd(tab_byte[((i - 1 - address) \div 8) + 1],
                    Pow2((i - 1 - address) % 8)) # 0
          THEN ON ELSE OFF
     ELSE Rd(dest, i - 1)]

(* get_byte_from_bits(): the loop or-es src[address + i] << i into a      *)
(* uint8_t.                                                                *)
RECURSIVE get_byte_from_bits_loop(_, _, _, _)
get_byte_from_bits_loop(src, address, i, nb_bits) ==
  IF i >= nb_bits THEN 0
  ELSE BitOr(U8(Rd(src, address + i) * Pow2(i)),
             get_byte_from_bits_loop(src, address, i + 1, nb_bits))

get_byte_from_bits(src, address, nb_bits) ==
  get_byte_from_bits_loop(src, address, 0, IF nb_bits > 8 THEN 8 ELSE nb_bits)

MaxBits == 9

BitArrays ==
  UNION {[1..n -> {OFF, ON}] : n \in 0..MaxBits}

BitAddresses == {0, 3}

(* The data bytes of the request force_multiple_coils builds for src. *)
ForceMultipleCoilsData(src, address) ==
  LET b == BuildQuery([fn |-> "force_multiple_coils", slave |-> 17,
                       addr |-> address, count |-> Len(src), src |-> src], 1)
  IN  SubSeq(b.buf, header_length + 8, b.size)

(* The payload of the server's response to a read of the Len(src) bits    *)
(* that sit at address in a table.                                         *)
ResponseIoStatusData(src, address) ==
  response_io_status(address, Len(src), [i \in 1..address |-> OFF] \o src)

(* force_multiple_coils or response_io_status packs op.src. *)
BitsPack ==
  /\ pc = "bits_idle"
  /\ \E a \in BitAddresses :
       query' \in {ForceMultipleCoilsData(op.src, a),
                   ResponseIoStatusData(op.src, a)}
  /\ query_size' = Len(query')
  /\ pc' = "bits_packed"
  /\ UNCHANGED <<heap, type_com, error_handling, conn, t_id, resp_t_id, junk,
                 rxq, inflight, eof, pending, rx, op, calls,
                 response, response_size, data_dest, result,
                 sent, nb_error_treat, flushed, reconnected, consumed,
                 mb_mapping, srv>>

(* read_io_status or set_bits_from_bytes unpacks the bytes of query. *)
BitsUnpack ==
  /\ pc = "bits_packed"
  /\ \/ /\ response' = [i \in 1..(header_length + 3) |-> 0] \o query
        /\ data_dest' = read_io_status_dest(Len(op.src), query_size, response')
     \/ /\ \E a \in BitAddresses :
             data_dest' = SubSeq(set_bits_from_bytes([i \in 1..a |-> ON], a,
                                                     Len(op.src), query),
                                 a + 1, a + Len(op.src))
        /\ UNCHANGED response
  /\ pc' = "bits_unpacked"
  /\ UNCHANGED <<heap, type_com, error_handling, conn, t_id, resp_t_id, junk,
                 rxq, inflight, eof, pending, rx, op, calls,
                 query, query_size, response_size, result,
                 sent, nb_error_treat, flushed, reconnected, consumed,
                 mb_mapping, srv>>

(* get_byte_from_bits takes a byte from eight elements of op.src. *)
BitsGetByte ==
  /\ pc = "bits_idle"
  /\ \E a \in 0..(Len(op.src) - 8) :
       /\ result' = get_byte_from_bits(op.src, a, 8)
       /\ calls' = a
  /\ pc' = "byte_got"
  /\ UNCHANGED <<heap, type_com, error_handling, conn, t_id, resp_t_id, junk,
                 rxq, inflight, eof, pending, rx, op,
                 query, query_size, response, response_size, data_dest,
                 sent, nb_error_treat, flushed, reconnected, consumed,
                 mb_mapping, srv>>

(* set_bits_from_byte stores the byte at the same address of an array. *)
BitsSetByte ==
  /\ pc = "byte_got"
  /\ data_dest' = set_bits_from_byte([i \in 1..Len(op.src) |-> 1 - op.src[i]],
                                     calls, result)
  /\ pc' = "byte_set"
  /\ UNCHANGED <<heap, type_com, error_handling, conn, t_id, resp_t_id, junk,
                 rxq, inflight, eof, pending, rx, op, calls,
                 query, query_size, response, response_size, result,
                 sent, nb_error_treat, flushed, reconnected, consumed,
                 mb_mapping, srv>>

(***************************************************************************)
(* Specifications.                                                         *)
(***************************************************************************)
InitHandle ==
  /\ type_com \in {"RTU", "TCP"}
  /\ error_handling \in (IF type_com = "TCP"
                         THEN {"RECONNECT_ON_ERROR", "NOP_ON_ERROR"}
                         ELSE {"RECONNECT_ON_ERROR"})
  /\ conn = [gen |-> 0, open |-> TRUE]
  /\ t_id = 0
  /\ resp_t_id = 0
  /\ junk \in JunkBytes
  /\ rxq = <<>>
  /\ inflight = <<>>
  /\ eof = FALSE
  /\ pending = <<>>
  /\ rx = NoRx
  /\ sent = <<>>
  /\ nb_error_treat = 0
  /\ flushed = FALSE
  /\ reconnected = FALSE
  /\ consumed = {}
  /\ heap = NoHeap

InitMaster ==
  /\ InitHandle
  /\ pc = "idle"
  /\ op = NoOp
  /\ calls = 0
  /\ query = <<>>
  /\ query_size = 0
  /\ response = <<>>
  /\ response_size = 0
  /\ data_dest = <<>>
  /\ result = 0
  /\ mb_mapping = NoMapping
  /\ srv = NoSrv

InitServer ==
  /\ InitHandle
  /\ pc = "srv_idle"
  /\ op = NoOp
  /\ calls = 0
  /\ query = <<>>
  /\ query_size = 0
  /\ response = <<>>
  /\ response_size = 0
  /\ data_dest = <<>>
  /\ result = 0
  /\ mb_mapping \in Mappings
  /\ srv = NoSrv

InitCrc ==
  /\ InitHandle
  /\ pc = "crc_idle"
  /\ op = NoOp
  /\ calls = 0
  /\ query \in ByteStrings
  /\ query_size = Len(query)
  /\ response = <<>>
  /\ response_size = 0
  /\ data_dest = <<>>
  /\ result = 0
  /\ mb_mapping = NoMapping
  /\ srv = NoSrv

(* A handle is used by a master for one operation, or by a server, or its *)
(* send and verify functions are applied to a byte string.                *)
Init ==
  InitMaster \/ InitServer \/ InitCrc

Next ==
  \/ \E o \in Ops : MasterCall(o, UninitInts)
  \/ MasterRead
  \/ MasterTimeout
  \/ MasterReadZero
  \/ MasterReadError
  \/ MasterSelectError
  \/ PeerReply(ExceptionCodes)
  \/ Arrive
  \/ PeerClose
  \/ SrvListen
  \/ SrvRead
  \/ SrvTimeout
  \/ SrvReadZero
  \/ SrvReadError
  \/ SrvSelectError
  \/ ManageQuery
  \/ ClientSend
  \/ CrcSend
  \/ CrcCheck

Spec ==
  Init /\ [][Next]_vars

NextSeq ==
  \/ \E o \in SeqOps : MasterCall(o, {})
  \/ MasterRead
  \/ MasterTimeout
  \/ MasterReadZero
  \/ MasterReadError
  \/ MasterSelectError
  \/ MasterReturn
  \/ PeerReply(SeqExceptionCodes)
  \/ Arrive
  \/ PeerClose

SpecSeq ==
  InitMaster /\ [][NextSeq]_vars

(* One call of a master whose peer sends a second frame right behind its  *)
(* reply.                                                                  *)
NextStream ==
  \/ \E o \in Ops : MasterCall(o, UninitInts)
  \/ MasterRead
  \/ MasterTimeout
  \/ PeerReplyStream
  \/ Arrive

SpecStream ==
  InitMaster /\ [][NextStream]_vars

(* A server answering read requests of any quantity. *)
NextLarge ==
  \/ SrvListen
  \/ ClientSendLarge
  \/ Arrive
  \/ SrvRead
  \/ SrvTimeout
  \/ ManageQuery

SpecLarge ==
  InitServer /\ [][NextLarge]_vars

(* A master on a line where frames of other units and responses to other  *)
(* functions arrive.                                                       *)
NextForeign ==
  \/ \E o \in Ops : MasterCall(o, UninitInts)
  \/ MasterRead
  \/ MasterTimeout
  \/ PeerReplyForeign
  \/ Arrive

SpecForeign ==
  InitMaster /\ [][NextForeign]_vars

(***************************************************************************)
(* Requests with quantities around the caps, and the transaction counter  *)
(* around its wrap.  The counter of build_query_packet_tcp is a static of *)
(* the process: it starts at 0, and holds 65534 after that many earlier   *)
(* requests.  No peer answers here, every call ends in a failure of       *)
(* modbus_send or of receive_msg.                                         *)
(***************************************************************************)
WireReadOps ==
  {[fn |-> "read_holding_registers", slave |-> 17, addr |-> 107, count |-> c,
    src |-> <<>>] : c \in {125, 200}}
  \cup {[fn |-> "read_input_registers", slave |-> 17, addr |-> 8, count |-> c,
          src |-> <<>>] : c \in {3, 126}}

WireWriteOps ==
  {[fn |-> "preset_multiple_registers", slave |-> 17, addr |-> 1, count |-> c,
    src |-> [i \in 1..c |-> (i * 257) % 65536]] : c \in {123, 124}}
  \cup {[fn |-> "force_multiple_coils", slave |-> 17, addr |-> 19,
          count |-> c, src |-> [i \in 1..c |-> IF i % 3 = 0 THEN 1 ELSE 0]] :
          c \in {1968, 1969}}

WireOps ==
  WireReadOps \cup WireWriteOps

TidStarts == {0, 65534}

InitWire ==
  /\ type_com \in {"RTU", "TCP"}
  /\ error_handling \in (IF type_com = "TCP"
                         THEN {"RECONNECT_ON_ERROR", "NOP_ON_ERROR"}
                         ELSE {"RECONNECT_ON_ERROR"})
  /\ conn = [gen |-> 0, open |-> TRUE]
  /\ t_id \in TidStarts
  /\ resp_t_id = 0
  /\ junk \in JunkBytes
  /\ rxq = <<>>
  /\ inflight = <<>>
  /\ eof = FALSE
  /\ pending = <<>>
  /\ rx = NoRx
  /\ sent = <<>>
  /\ nb_error_treat = 0
  /\ flushed = FALSE
  /\ reconnected = FALSE
  /\ consumed = {}
  /\ heap = NoHeap
  /\ pc = "idle"
  /\ op = NoOp
  /\ calls = 0
  /\ query = <<>>
  /\ query_size = 0
  /\ response = <<>>
  /\ response_size = 0
  /\ data_dest = <<>>
  /\ result = 0
  /\ mb_mapping = NoMapping
  /\ srv = NoSrv

NextWire ==
  \/ \E o \in WireOps : MasterCall(o, {})
  \/ MasterTimeout
  \/ MasterReadError
  \/ MasterReturn

SpecWire ==
  InitWire /\ [][NextWire]_vars

(* The bit utilities applied to an array of 0/1 values. *)
InitBits ==
  /\ InitHandle
  /\ pc = "bits_idle"
  /\ op \in {[fn |-> "bits", slave |-> 0, addr |-> 0, count |-> Len(src),
               src |-> src] : src \in BitArrays}
  /\ calls = 0
  /\ query = <<>>
  /\ query_size = 0
  /\ response = <<>>
  /\ response_size = 0
  /\ data_dest = <<>>
  /\ result = 0
  /\ mb_mapping = NoMapping
  /\ srv = NoSrv

NextBits ==
  \/ BitsPack
  \/ BitsUnpack
  \/ BitsGetByte
  \/ BitsSetByte

SpecBits ==
  InitBits /\ [][NextBits]_vars

(* A server with no mapping yet that listens for one request. *)
InitListen ==
  /\ InitHandle
  /\ pc = "srv_idle"
  /\ op = NoOp
  /\ calls = 0
  /\ query = <<>>
  /\ query_size = 0
  /\ response = <<>>
  /\ response_size = 0
  /\ data_dest = <<>>
  /\ result = 0
  /\ mb_mapping = NoMapping
  /\ srv = NoSrv
  /\ junk = 0

NextListen ==
  \/ SrvListen
  \/ ClientSendListen
  \/ Arrive
  \/ SrvRead
  \/ SrvTimeout

SpecListen ==
  InitListen /\ [][NextListen]_vars

(* The same server when signals interrupt its waits and select() fails in *)
(* no other way.                                                           *)
NextInterrupted ==
  \/ SrvListen
  \/ ClientSend
  \/ Arrive
  \/ SrvRead
  \/ SrvTimeout
  \/ SrvSelectInterrupted

SpecInterrupted ==
  InitListen /\ [][NextInterrupted]_vars

(* select() returns when the descriptor has data or when its timeout has  *)
(* elapsed: a receive_msg that waits is not left waiting for ever.        *)
SpecInterruptedFair ==
  SpecInterrupted /\ WF_vars(SrvRead \/ SrvTimeout)

(* A query of any function code and quantity in the buffer of a master. *)
InitSize ==
  /\ InitHandle
  /\ pc = "size_idle"
  /\ op = NoOp
  /\ calls = 0
  /\ query \in {SizeQuery(fc, qty) : fc \in SizeFcs, qty \in SizeQuantities}
  /\ query_size = Len(query)
  /\ response = <<>>
  /\ response_size = 0
  /\ data_dest = <<>>
  /\ result = 0
  /\ mb_mapping = NoMapping
  /\ srv = NoSrv

NextSize ==
  \/ SizeCompute
  \/ SizeComputeNext

SpecSize ==
  InitSize /\ [][NextSize]_vars

(* A process that allocates a mapping, before it serves any request. *)
InitMapping ==
  /\ InitHandle
  /\ pc = "map_idle"
  /\ op = NoOp
  /\ calls = 0
  /\ query = <<>>
  /\ query_size = 0
  /\ response = <<>>
  /\ response_size = 0
  /\ data_dest = <<>>
  /\ result = 0
  /\ mb_mapping = NoMapping
  /\ srv = NoSrv

NextMapping ==
  \/ MappingNew
  \/ MappingFree

SpecMapping ==
  InitMapping /\ [][NextMapping]_vars


(***************************************************************************)
(* Properties of the master operations.                                    *)
(***************************************************************************)
(* The request frame the running operation put on the wire. *)
Request ==
  View(query, query_size)

(* The operation has returned after receive_msg got, as the whole reply   *)
(* to its own request, exactly the bytes of frame.                        *)
WholeReplyIs(frame) ==
  /\ pc = "done"
  /\ rx.returned
  /\ rx.ret \in {0, COMM_TIME_OUT}
  /\ rx.received = Len(frame)
  /\ View(response, Len(frame)) = frame
  /\ consumed = {calls}

ListedExceptionCodes ==
  (1..8) \cup {10, 11}

(* C1: for every master operation and every listed exception code k, when *)
(* the whole reply of the peer is the exception frame [unit, fc|0x80, k]  *)
(* in its envelope, the operation returns -k.                             *)
C1_ExceptionCapture ==
  \A k \in ListedExceptionCodes :
    WholeReplyIs(ExceptionFrame(Request, k)) => result = 0 - k

(* receive_msg returned 0 with a frame of the predicted length whose      *)
(* checksum is valid.                                                      *)
CompleteValidResponse ==
  /\ rx.returned
  /\ rx.ret = 0
  /\ rx.received = compute_response_size(query)
  /\ check_crc16(response, rx.received)

(* C2: a master operation returns a strictly negative value when the      *)
(* exchange failed, in particular on an exception response with any code  *)
(* 0x00..0x0B, and a non-negative count only when a complete response of  *)
(* the predicted length with a valid checksum was received.               *)
C2_NegativeOnFailure ==
  pc = "done" =>
    /\ result >= 0 => CompleteValidResponse
    /\ \A k \in 0..11 :
         WholeReplyIs(ExceptionFrame(Request, k)) => result < 0

(* C3: on TCP, when the transaction identifier of the received response   *)
(* differs from the one of the request, the operation returns a negative  *)
(* code and writes nothing to the caller's buffer.                        *)
C3_TransactionIdChecked ==
  ( /\ pc = "done"
    /\ type_com = "TCP"
    /\ rx.returned
    /\ rx.ret = 0
    /\ Rd(response, 0) * 256 + Rd(response, 1) # ReqTid(Request) )
  => (result < 0 /\ data_dest = <<>>)

(* C5: a call that does not fail decoded only bytes of the peer's reply   *)
(* to its own request, never bytes of the reply to an earlier request     *)
(* that arrived after that request had timed out.                         *)
C5_NoStaleResponse ==
  (pc = "done" /\ result >= 0) => consumed \subseteq {calls}

RecoveredErrors ==
  {INVALID_CRC, TOO_MANY_DATAS, PORT_SOCKET_FAILURE, SELECT_FAILURE,
   CONNECTION_CLOSED, COMM_TIME_OUT}

(* C6: when a master operation returns a framing, transport or timeout    *)
(* error, the recovery was done before: the serial queues were flushed on *)
(* RTU, the socket was closed and reconnected on TCP in reconnect mode.   *)
C6_RecoveryBeforeReturn ==
  (pc = "done" /\ result \in RecoveredErrors) =>
    /\ type_com = "RTU" => flushed
    /\ (type_com = "TCP" /\ error_handling = "RECONNECT_ON_ERROR")
         => reconnected

(* C7: when no byte arrives within the initial wait, the operation        *)
(* returns COMM_TIME_OUT whatever its locals and buffer held before.      *)
C7_SilenceIsTimeout ==
  (pc = "done" /\ rx.returned /\ rx.ret = COMM_TIME_OUT /\ ~rx.started)
  => result = COMM_TIME_OUT

(***************************************************************************)
(* Properties of the server.                                               *)
(***************************************************************************)
(* C4: on TCP, each response frame the server transmits carries in bytes  *)
(* 0-1 the transaction identifier of the request it answers.              *)
C4_ResponseEchoesTransactionId ==
  (type_com = "TCP" /\ srv.answered) =>
    <<Rd(srv.response, 0), Rd(srv.response, 1)>> =
      <<Rd(srv.request, 0), Rd(srv.request, 1)>>

(* Byte i (from 1) of the packing of the q elements of tab from index a   *)
(* on: element a+j is bit (j mod 8) of byte (j div 8).                    *)
RECURSIVE PackedByte(_, _, _, _, _)
PackedByte(tab, a, q, i, j) ==
  IF j > 7 \/ 8 * (i - 1) + j >= q THEN 0
  ELSE tab[a + 8 * (i - 1) + j + 1] * Pow2(j) + PackedByte(tab, a, q, i, j + 1)

(* C10: the response to a read of q coils or discrete inputs from address *)
(* a, inside the map, has a payload of ceil(q/8) bytes in which bit       *)
(* (j mod 8) of byte (j div 8) is element a+j, the unused bits zero.      *)
C10_BitPacking ==
  LET fc == ReqFc(srv.request)
      a == Rd(srv.request, header_length + 2) * 256
           + Rd(srv.request, header_length + 3)
      q == ReqQty(srv.request)
      tab == IF fc = FC_READ_COIL_STATUS THEN mb_mapping.tab_coil_status
             ELSE mb_mapping.tab_input_status
      n == (q + 7) \div 8
      first == header_length + 3
  IN  ( /\ srv.answered
        /\ fc \in {FC_READ_COIL_STATUS, FC_READ_INPUT_STATUS}
        /\ a + q <= Len(tab) )
      => /\ Len(srv.response) = first + n + checksum_size
         /\ \A i \in 1..n :
              srv.response[first + i] = PackedByte(tab, a, q, i, 0)

(***************************************************************************)
(* Properties of the checksum.                                             *)
(***************************************************************************)
(* The Modbus CRC-16 computed bit by bit: polynomial 0xA001, initial      *)
(* value 0xFFFF.  The low byte of the result goes on the wire first.      *)
RECURSIVE Crc16RefShift(_, _)
Crc16RefShift(reg, n) ==
  IF n = 0 THEN reg
  ELSE Crc16RefShift(IF reg % 2 = 1 THEN BitXor(reg \div 2, 40961)
                     ELSE reg \div 2, n - 1)

RECURSIVE Crc16RefFrom(_, _, _)
Crc16RefFrom(bytes, k, reg) ==
  IF k > Len(bytes) \/ reg < 0 THEN reg
  ELSE Crc16RefFrom(bytes, k + 1, Crc16RefShift(BitXor(reg, bytes[k]), 8))

Crc16Ref(bytes) ==
  Crc16RefFrom(bytes, 1, UINT16_MAX)

(* frame ends with the CRC-16 of all its preceding bytes. *)
HasCrcTrailer(frame) ==
  /\ Len(frame) >= 2
  /\ LET c == Crc16Ref(SubSeq(frame, 1, Len(frame) - 2))
     IN  <<frame[Len(frame) - 1], frame[Len(frame)]>> = <<Lo(c), Hi(c)>>

(* C8: every frame sent on an RTU handle ends with the CRC-16 of its      *)
(* preceding bytes and passes check_crc16, and a byte string followed by  *)
(* the trailer modbus_send appends passes check_crc16.                    *)
C8_CrcTrailer ==
  type_com = "RTU" =>
    /\ \A i \in 1..Len(sent) :
         HasCrcTrailer(sent[i]) /\ check_crc16(sent[i], Len(sent[i]))
    /\ pc = "crc_looped" =>
         /\ HasCrcTrailer(View(query, query_size))
         /\ result = 0

C8_Witness ==
  /\ type_com = "RTU"
  /\ pc = "crc_looped"
  /\ query_size > CHECKSUM_SIZE_RTU
  /\ sent = <<View(query, query_size)>>
  /\ result = 0

(* The first n bytes of msg do not end with the CRC-16 of the bytes       *)
(* before.                                                                *)
BadTrailer(msg, n) ==
  n >= 2 /\ ~HasCrcTrailer(View(msg, n))

(* C9: on RTU a completely received frame whose trailer is not the CRC-16 *)
(* of its preceding bytes makes the master operation and modbus_listen    *)
(* return INVALID_CRC; on TCP check_crc16 returns 0 for every frame and   *)
(* leaves the handle and the descriptor as they were.                     *)
C9_BadCrcRejected ==
  /\ ( /\ type_com = "RTU"
       /\ pc = "done"
       /\ rx.returned
       /\ rx.ret = 0
       /\ BadTrailer(response, rx.received) )
     => result = INVALID_CRC
  /\ ( /\ type_com = "RTU"
       /\ pc \in {"srv_idle", "srv_listened"}
       /\ rx.returned
       /\ rx.ret = 0
       /\ BadTrailer(srv.query, srv.query_size) )
     => srv.listen_ret = INVALID_CRC
  /\ (type_com = "TCP" /\ pc = "crc_checked")
     => /\ result = 0
        /\ nb_error_treat = 0
        /\ ~flushed
        /\ ~reconnected
        /\ conn = [gen |-> 0, open |-> TRUE]
  /\ type_com = "TCP" => result # INVALID_CRC /\ srv.listen_ret # INVALID_CRC

C9_Witness ==
  /\ type_com = "RTU"
  /\ pc = "done"
  /\ rx.returned
  /\ rx.ret = 0
  /\ BadTrailer(response, rx.received)
  /\ result = INVALID_CRC
  /\ flushed

(***************************************************************************)
(* Properties of the server's address and value checks.                    *)
(***************************************************************************)
(* The request manage_query was given, and its fields. *)
Handled ==
  pc = "srv_idle" /\ srv.request # <<>>

SrvFc ==
  ReqFc(srv.request)

SrvAddress ==
  Rd(srv.request, header_length + 2) * 256 + Rd(srv.request, header_length + 3)

SrvField ==
  Rd(srv.request, header_length + 4) * 256 + Rd(srv.request, header_length + 5)

(* The declared length of the array the request addresses. *)
SrvMapLength ==
  CASE SrvFc \in {FC_READ_COIL_STATUS, FC_FORCE_SINGLE_COIL,
                  FC_FORCE_MULTIPLE_COILS} -> srv.before.nb_coil_status
    [] SrvFc = FC_READ_INPUT_STATUS -> srv.before.nb_input_status
    [] SrvFc = FC_READ_INPUT_REGISTERS -> srv.before.nb_input_registers
    [] OTHER -> srv.before.nb_holding_registers

SrvReads ==
  SrvFc \in {FC_READ_COIL_STATUS, FC_READ_INPUT_STATUS,
             FC_READ_HOLDING_REGISTERS, FC_READ_INPUT_REGISTERS}

SrvWrites ==
  SrvFc \in {FC_FORCE_SINGLE_COIL, FC_PRESET_SINGLE_REGISTER,
             FC_FORCE_MULTIPLE_COILS, FC_PRESET_MULTIPLE_REGISTERS}

(* The request was received with its address and quantity fields, and    *)
(* the address, or the address plus the quantity, lies outside the array. *)
SrvOutOfRange ==
  /\ Len(srv.request) >= header_length + 6
  /\ SrvReads \/ SrvWrites
  /\ IF SrvFc \in {FC_FORCE_SINGLE_COIL, FC_PRESET_SINGLE_REGISTER}
     THEN SrvAddress >= SrvMapLength
     ELSE SrvAddress + SrvField > SrvMapLength

(* The response sent is the exception response with code k. *)
AnsweredException(k) ==
  /\ srv.answered
  /\ srv.response =
       Envelope(ReqTid(srv.response), <<ReqUnit(srv.request), SrvFc + 128, k>>)

(* C11: a request whose address, or address + quantity, lies outside the  *)
(* addressed array is answered with exception 0x02, and handling it reads *)
(* no element outside the map.                                            *)
C11_OutOfRangeRejected ==
  (Handled /\ SrvOutOfRange) =>
    /\ srv.answered => AnsweredException(2)
    /\ ~srv.oob_read

(* C12: a write request whose address (plus quantity) exceeds the map     *)
(* length leaves every element of the register map unchanged and writes  *)
(* no memory outside the map.                                             *)
C12_RejectedBeforeWrite ==
  (Handled /\ SrvWrites /\ SrvOutOfRange) =>
    /\ mb_mapping = srv.before
    /\ ~srv.oob_write

(* C13: write single coil sets the addressed coil to ON for the value     *)
(* 0xFF00 and to OFF for 0x0000; for any other value the coil is          *)
(* unchanged and the answer is exception 0x03, not an echo.               *)
C13_SingleCoilValue ==
  (Handled /\ SrvFc = FC_FORCE_SINGLE_COIL /\ ~SrvOutOfRange) =>
    LET coil == mb_mapping.tab_coil_status[SrvAddress + 1]
    IN  CASE SrvField = 65280 -> coil = ON
          [] SrvField = 0 -> coil = OFF
          [] OTHER -> /\ coil = srv.before.tab_coil_status[SrvAddress + 1]
                      /\ srv.answered => AnsweredException(3)

(***************************************************************************)
(* Properties of the requests a master puts on the wire.                   *)
(***************************************************************************)
(* The operation sent its request and waits for the response. *)
RequestSent ==
  pc = "recv" /\ sent # <<>>

LastSent ==
  sent[Len(sent)]

(* The quantity field of a request frame. *)
QuantityOf(frame) ==
  frame[header_length + 5] * 256 + frame[header_length + 6]

Cap(fn) ==
  CASE fn = "read_holding_registers" -> 125
    [] fn = "read_input_registers" -> 125
    [] fn = "preset_multiple_registers" -> 123
    [] fn = "force_multiple_coils" -> 1968

CappedFns ==
  {"read_holding_registers", "read_input_registers",
   "preset_multiple_registers", "force_multiple_coils"}

(* The number of data bytes a multiple write of q items carries. *)
PayloadBytes(fn, q) ==
  IF fn = "preset_multiple_registers" THEN 2 * q ELSE (q + 7) \div 8

(* C14: read_holding_registers and read_input_registers cap the quantity  *)
(* at 125, preset_multiple_registers at 123, force_multiple_coils at      *)
(* 1968.  A call with a quantity above the cap puts exactly one request   *)
(* on the wire, whose quantity field is the cap and whose byte count and  *)
(* payload are sized for the cap; a quantity at or below the cap is sent  *)
(* unchanged.                                                              *)
C14_QuantityClamped ==
  /\ Len(sent) <= calls
  /\ (RequestSent /\ op.fn \in CappedFns) =>
       LET q == IF op.count > Cap(op.fn) THEN Cap(op.fn) ELSE op.count
           head == header_length + 6
       IN  /\ LastSent = Request
           /\ LastSent[header_length + 2] = FunctionOf(op)
           /\ QuantityOf(LastSent) = q
           /\ IF op.fn \in ReadRegFns
              THEN Len(LastSent) = head + checksum_size
              ELSE /\ LastSent[head + 1] = PayloadBytes(op.fn, q)
                   /\ Len(LastSent)
                        = head + 1 + PayloadBytes(op.fn, q) + checksum_size

(* A request for 200 holding registers went out as a request for 125. *)
C14_Witness ==
  /\ RequestSent
  /\ op.fn = "read_holding_registers"
  /\ op.count = 200
  /\ QuantityOf(LastSent) = 125

(* The frames a master or a server handed to the transport. *)
FramesSent ==
  IF pc \in {"crc_idle", "crc_sent", "crc_checked", "crc_looped"}
  THEN {}
  ELSE {sent[i] : i \in 1..Len(sent)}

(* The length field of a Modbus-TCP frame: bytes 4-5, big-endian. *)
LengthField(frame) ==
  frame[5] * 256 + frame[6]

(* C15: every frame transmitted on TCP, a request of a master or a        *)
(* response of a server (the echoed response to a write-single-coil       *)
(* request included), carries in bytes 4-5, big-endian, its total size    *)
(* less 6.                                                                 *)
C15_TcpLengthField ==
  type_com = "TCP" =>
    \A frame \in FramesSent :
      /\ Len(frame) >= 6
      /\ LengthField(frame) = Len(frame) - 6

(* A TCP server answered a write-single-coil request with the echo. *)
C15_Witness ==
  /\ type_com = "TCP"
  /\ Handled
  /\ SrvFc = FC_FORCE_SINGLE_COIL
  /\ srv.answered
  /\ srv.response \in FramesSent
  /\ SubSeq(srv.response, 7, 12) = SubSeq(srv.request, 7, 12)
  /\ LengthField(srv.response) = 6

(* The transaction identifier a TCP request buffer carries: bytes 0-1. *)
TidOf(frame) ==
  frame[1] * 256 + frame[2]

(* A step in which a TCP master operation builds its request. *)
BuildsRequest ==
  type_com = "TCP" /\ calls' = calls + 1

(* C16: the transaction identifier of the master is incremented before    *)
(* use, so that the first request, built from the initial value 0,        *)
(* carries 1; it advances by exactly 1 for each request built, and the    *)
(* request after the one carrying 0xFFFF carries 0.                       *)
C16_TransactionCounter ==
  [][BuildsRequest =>
       /\ t_id' = (IF t_id = 65535 THEN 0 ELSE t_id + 1)
       /\ TidOf(query') = t_id'
       /\ sent' # sent => TidOf(sent'[Len(sent')]) = t_id']_vars

(* The request after the one that carried 0xFFFF is on the wire with 0. *)
C16_Witness ==
  /\ type_com = "TCP"
  /\ calls = 2
  /\ Len(sent) = 2
  /\ TidOf(sent[1]) = 65535
  /\ TidOf(sent[2]) = 0
  /\ t_id = 0

(***************************************************************************)
(* Properties of the error handling modes.                                 *)
(***************************************************************************)
NopOnError ==
  type_com = "TCP" /\ error_handling = "NOP_ON_ERROR"

(* The descriptor is the one modbus_connect opened: never closed, never   *)
(* replaced.                                                               *)
SameDescriptor ==
  conn = [gen |-> 0, open |-> TRUE] /\ ~reconnected

(* The master operation has returned after modbus_send failed, or after   *)
(* receive_msg failed.                                                     *)
CallFailed ==
  /\ pc = "done"
  /\ op # NoOp
  /\ ~rx.returned \/ rx.ret < 0

(* C17: on a TCP handle in the nop-on-error mode no error path of         *)
(* sending, receiving or response checking closes or reopens the socket:  *)
(* the descriptor is the same open descriptor before and after a failing  *)
(* call, and the failing call returns an error code to its caller.        *)
C17_NopOnErrorKeepsSocket ==
  NopOnError =>
    /\ SameDescriptor
    /\ CallFailed => result < 0

(***************************************************************************)
(* Properties of what the master operations hand back to their caller.     *)
(***************************************************************************)
(* The operation received a whole response that carries the function     *)
(* code of its request, and reports success.                               *)
Succeeded ==
  /\ pc = "done"
  /\ rx.returned
  /\ rx.ret = 0
  /\ result >= 0
  /\ Rd(response, header_length + 1) = FunctionOf(op)

(* The byte count of the response. *)
ByteCount ==
  Rd(response, header_length + 2)

(* Byte i of the data that follows the byte count of the response. *)
Payload(i) ==
  response[header_length + 4 + i]

(* After a successful read_coil_status or read_input_status of quantity  *)
(* q, slot j of the destination (0 <= j < q) holds bit j mod 8 of payload *)
(* byte j div 8, no slot at or beyond q is written, and the call returns  *)
(* q.                                                                      *)
BitsDecoded ==
  (Succeeded /\ op.fn \in ReadBitFns /\ ByteCount = (op.count + 7) \div 8) =>
    /\ result = op.count
    /\ Len(data_dest) = op.count
    /\ \A j \in 0..(op.count - 1) :
         data_dest[j + 1] = (Payload(j \div 8) \div Pow2(j % 8)) % 2

(* What a read of ten coils hands back when the whole reply is frame:     *)
(* the ten values 1,0,1,1,0,0,1,1,1,1 and the count 10.                   *)
TenCoilsFrom(frame) ==
  (/\ type_com = "RTU"
   /\ op.fn = "read_coil_status"
   /\ op.count = 10
   /\ WholeReplyIs(frame))
  => /\ data_dest = <<1, 0, 1, 1, 0, 0, 1, 1, 1, 1>>
     /\ result = 10

C19_RegistersDecoded ==
  /\ (Succeeded /\ op.fn \in ReadRegFns) =>
       /\ result = ByteCount \div 2
       /\ Len(data_dest) >= result
       /\ \A i \in 0..(result - 1) :
            data_dest[i + 1] = Payload(2 * i) * 256 + Payload(2 * i + 1)
  /\ (/\ type_com = "RTU"
      /\ op.fn = "read_holding_registers"
      /\ WholeReplyIs(<<17, 3, 6, 174, 65, 86, 82, 67, 64, 73, 173>>))
     => /\ data_dest = <<44609, 22098, 17216>>
        /\ result = 3

(* The reply 11 03 06 AE 41 56 52 43 40 49 AD to a read of three holding  *)
(* registers was decoded.                                                  *)
C19_Witness ==
  /\ Succeeded
  /\ type_com = "RTU"
  /\ op.fn = "read_holding_registers"
  /\ WholeReplyIs(<<17, 3, 6, 174, 65, 86, 82, 67, 64, 73, 173>>)
  /\ data_dest = <<44609, 22098, 17216>>
  /\ result = 3

SingleWriteFns ==
  {"force_single_coil", "preset_single_register"}

MultiWriteFns ==
  {"force_multiple_coils", "preset_multiple_registers"}

(* The address field and the quantity or value field of a frame. *)
EchoFields(frame) ==
  SubSeq(frame, header_length + 3, header_length + 6)

(* C20: a single write (FC 0x05, 0x06) returns 1 and a multiple write     *)
(* (FC 0x0F, 0x10) returns the quantity written, and either reports       *)
(* success only when the response echoes the address field and the        *)
(* quantity or value field of the request that was sent.                  *)
C20_WriteEchoChecked ==
  (/\ pc = "done"
   /\ rx.returned
   /\ rx.ret = 0
   /\ op.fn \in SingleWriteFns \cup MultiWriteFns
   /\ result >= 0)
  => /\ result = (IF op.fn \in SingleWriteFns THEN 1 ELSE QuantityOf(Request))
     /\ EchoFields(View(response, header_length + 6)) = EchoFields(Request)

(***************************************************************************)
(* Properties of the course of a master operation.                        *)
(***************************************************************************)
(* C21: each call of a master operation transmits exactly one request     *)
(* frame and performs at most one receive: after any error it returns to  *)
(* its caller without sending the request again, and when the send itself *)
(* fails it performs no receive and returns PORT_SOCKET_FAILURE.          *)
C21_OneRequestOneReceive ==
  [][op' # NoOp =>
       /\ calls' = calls + 1 =>
            \/ /\ sent' = Append(sent, Request')
               /\ pc' = "recv"
               /\ ~rx'.returned
            \/ /\ sent' = sent
               /\ pc' = "done"
               /\ result' = -13
               /\ ~rx'.started /\ ~rx'.returned
       /\ calls' = calls => sent' = sent /\ query' = query
       /\ (calls' = calls /\ rx.returned) => rx' = rx
       /\ rx'.returned => pc' # "recv"]_vars

(* A call that timed out, was treated by a reconnection, and returned an  *)
(* error with its one request on the wire.                                 *)
C21_Witness ==
  /\ pc = "done"
  /\ op # NoOp
  /\ calls = 1
  /\ sent = <<Request>>
  /\ rx.returned
  /\ rx.ret = COMM_TIME_OUT
  /\ reconnected
  /\ result < 0

(***************************************************************************)
(* Properties of the allocation of the mapping.                            *)
(***************************************************************************)
MappingNewDone ==
  pc \in {"map_done", "map_fault"}

(* C22: modbus_mapping_new is all-or-nothing.  If one of the four         *)
(* allocations fails it returns FALSE with every array allocated before   *)
(* released, and without writing through the failed (null) pointer; on    *)
(* success the four arrays have their declared lengths and every element  *)
(* is zero.                                                                *)
C22_MappingAllOrNothing ==
  MappingNewDone =>
    IF heap.failed # {}
    THEN /\ pc = "map_done"
         /\ result = 0
         /\ heap.live = {}
         /\ ~heap.null_write
    ELSE /\ pc = "map_done"
         /\ result = 1
         /\ mb_mapping.nb_coil_status = heap.sizes[1]
         /\ mb_mapping.nb_input_status = heap.sizes[2]
         /\ mb_mapping.nb_holding_registers = heap.sizes[3]
         /\ mb_mapping.nb_input_registers = heap.sizes[4]
         /\ mb_mapping.tab_coil_status = [x \in 1..heap.sizes[1] |-> 0]
         /\ mb_mapping.tab_input_status = [x \in 1..heap.sizes[2] |-> 0]
         /\ mb_mapping.tab_holding_registers = [x \in 1..heap.sizes[3] |-> 0]
         /\ mb_mapping.tab_input_registers = [x \in 1..heap.sizes[4] |-> 0]

(***************************************************************************)
(* Properties of the bit utilities.                                        *)
(***************************************************************************)
(* C23: packing N values of 0/1, low bit first, into ceil(N/8) bytes, as  *)
(* force_multiple_coils and the bit-read response of the server do, and   *)
(* unpacking them again, as read_io_status and set_bits_from_bytes do,    *)
(* gives back the N values, for every N from 0 to MaxBits; and            *)
(* get_byte_from_bits with nb_bits = 8 is the inverse of                  *)
(* set_bits_from_byte on arrays of 0/1 values.                            *)
C23_PackUnpackInverse ==
  /\ pc = "bits_packed" => Len(query) = (Len(op.src) + 7) \div 8
  /\ pc = "bits_unpacked" => data_dest = op.src
  /\ pc = "byte_set" =>
       /\ SubSeq(data_dest, calls + 1, calls + 8)
            = SubSeq(op.src, calls + 1, calls + 8)
       /\ get_byte_from_bits(data_dest, calls, 8) = result

(* Nine values, the ninth ON, went through two bytes and came back. *)
C23_Witness ==
  /\ pc = "bits_unpacked"
  /\ Len(op.src) = 9
  /\ op.src[9] = ON
  /\ Len(query) = 2
  /\ query[2] = 1
  /\ data_dest = op.src

(***************************************************************************)
(* Properties of receive_msg.                                              *)
(***************************************************************************)
Listening ==
  pc \in {"srv_recv", "srv_listened", "srv_idle"} /\ calls > 0

ListenReturned ==
  Listening /\ rx.returned

(* C24: when the bytes received would go past MAX_PACKET_SIZE, receive_msg *)
(* returns TOO_MANY_DATAS and has stored no byte past position             *)
(* MAX_PACKET_SIZE - 1 of the buffer.                                      *)
C24_NothingStoredPastPacket ==
  Listening =>
    /\ Len(srv.query) <= MAX_PACKET_SIZE
    /\ (rx.returned /\ rx.received > MAX_PACKET_SIZE) => rx.ret = TOO_MANY_DATAS

(* C25: a receive of undefined size that returns 0 has gone through the    *)
(* states FUNCTION, BYTE and COMPLETE, whatever the function code and the  *)
(* transport: it does not return 0 in FUNCTION or BYTE, and the length it  *)
(* waited for includes the checksum.                                       *)
C25_SuccessOnlyWhenComplete ==
  (ListenReturned /\ rx.ret = 0) =>
    /\ rx.state = "COMPLETE"
    /\ rx.msg_size_computed >= header_length + 2 + checksum_size

(* The function code and the byte count field of the request received. *)
ListenFc ==
  Rd(srv.query, header_length + 1)

ListenByteCount ==
  Rd(srv.query, header_length + 6)

MultiWriteFcs ==
  {FC_FORCE_MULTIPLE_COILS, FC_PRESET_MULTIPLE_REGISTERS}

PastFunction ==
  Listening /\ rx.started /\ rx.state = "BYTE"

(* C26: after the first header_length + 2 bytes of a request of undefined *)
(* size, receive_msg asks for 4 more bytes when the function code is       *)
(* <= 0x06, for 5 more when it is 0x0F or 0x10, and for none otherwise.    *)
C26_HeaderSizeTable ==
  PastFunction =>
    rx.msg_size_computed - (header_length + 2)
      = (IF ListenFc <= FC_PRESET_SINGLE_REGISTER THEN 4
         ELSE IF ListenFc \in MultiWriteFcs THEN 5
         ELSE 0)

PastByte ==
  Listening /\ rx.started /\ rx.state = "COMPLETE"

(* C27: for a request 0x0F or 0x10 with the byte count field b, any value *)
(* of 0..255, the length waited for grows by b plus the checksum, with no  *)
(* wrap at 8 bits, so that 0 is returned only after header_length + 7 + b  *)
(* + checksum bytes; for another function code it grows by the checksum.   *)
C27_DataSizeNoWrap ==
  /\ PastByte =>
       rx.msg_size_computed
         = header_length + 2 + compute_query_size_header(ListenFc)
           + (IF ListenFc \in MultiWriteFcs THEN ListenByteCount ELSE 0)
           + checksum_size
  /\ (ListenReturned /\ rx.ret = 0 /\ ListenFc \in MultiWriteFcs) =>
       rx.received = header_length + 7 + ListenByteCount + checksum_size

(* What receive_msg returns when the whole of stream is in the input       *)
(* queue before its first read: every read gets the size_to_read bytes it  *)
(* asks for.                                                               *)
RECURSIVE ReceiveFrom(_, _, _, _)
ReceiveFrom(r, msg, msg_size, stream) ==
  IF stream = <<>>
  THEN [ret |-> COMM_TIME_OUT, frame |-> <<>>, size |-> 0]
  ELSE LET n == Min(r.size_to_read, Len(stream))
           t == receive_msg_read(r, msg, msg_size, SubSeq(stream, 1, n))
       IN  IF t.wait
           THEN ReceiveFrom(t.rx, t.msg, t.msg_size,
                            SubSeq(stream, n + 1, Len(stream)))
           ELSE [ret |-> t.ret, frame |-> View(t.msg, t.msg_size),
                 size |-> t.msg_size]

ReceivedInOneRead(stream) ==
  ReceiveFrom(receive_msg_entry(MSG_SIZE_UNDEFINED), <<>>, 0, stream)

(* The requests of the protocol among those the client sends. *)
WellFormedRequest ==
  /\ query # <<>>
  /\ query[header_length + 2] \in (1..7) \cup MultiWriteFcs \cup {FC_REPORT_SLAVE_ID}
  /\ query[header_length + 2] \in MultiWriteFcs => query[header_length + 7] <= 246

(* C28: receive_msg on a request of undefined size does not depend on how *)
(* the bytes are split across reads.  For a well-formed request arriving   *)
(* in any split, one byte per read included, with no gap longer than the   *)
(* timeout, it returns 0 with the whole frame and its length, as when the  *)
(* frame arrives in one piece; when the bytes stop for longer than the     *)
(* timeout before the frame is complete, it returns COMM_TIME_OUT.         *)
C28_SegmentationIndependent ==
  (Listening /\ WellFormedRequest) =>
    /\ (rx.returned /\ rx.ret = 0) =>
         /\ ReceivedInOneRead(query)
              = [ret |-> 0, frame |-> View(srv.query, srv.query_size),
                 size |-> srv.query_size]
         /\ View(srv.query, srv.query_size) = query
         /\ rx.received = Len(query)
    /\ (rx.returned /\ rx.ret # 0) =>
         /\ rx.ret = COMM_TIME_OUT
         /\ rx.received < Len(query)
    /\ (pc = "srv_recv" /\ rx.started) => (rxq # <<>> \/ inflight # <<>>)

(* The bytes receive_msg has taken from the descriptor so far. *)
TakenSoFar ==
  IF rx.started THEN response_size ELSE 0

(* C29: with a size given by the caller, receive_msg returns 0 only when  *)
(* it has received exactly that many bytes; however the stream is split,   *)
(* no read asks for more than is missing to reach that size, so that the   *)
(* bytes that follow in the stream are left in the input queue.            *)
C29_KnownLengthExact ==
  [][(pc = "recv" /\ rx' # rx) =>
       LET taken == (IF rx'.returned THEN rx'.received
                     ELSE IF rx'.started THEN response_size' ELSE 0)
                    - TakenSoFar
       IN  /\ rx.msg_size_computed = compute_response_size(query)
           /\ rx.size_to_read = rx.msg_size_computed - TakenSoFar
           /\ taken <= rx.size_to_read
           /\ nb_error_treat' = 0 => rxq' = SubSeq(rxq, taken + 1, Len(rxq))
           /\ (rx'.returned /\ rx'.ret = 0) =>
                rx'.received = compute_response_size(query)]_vars

(* The call has returned 0 after taking its reply, and the frame that     *)
(* came behind it is whole in the input queue.                             *)
C29_Witness ==
  /\ pc = "done"
  /\ rx.returned
  /\ rx.ret = 0
  /\ rx.received = compute_response_size(query)
  /\ View(response, rx.received) = GoodFrame(Request)
  /\ consumed = {calls}
  /\ Bytes(rxq) = ExceptionFrame(Request, 2)
  /\ Tags(rxq) = {calls + 1}

(* C30: a select() interrupted by a signal (EINTR) makes receive_msg       *)
(* return neither COMM_TIME_OUT nor SELECT_FAILURE: the wait is taken up   *)
(* again on the same descriptor, with nothing received so far lost, any    *)
(* number of times, and COMM_TIME_OUT is returned only by a wait that      *)
(* expired with no data in the input queue.                                *)
C30_InterruptedWaitRetried ==
  [][/\ (pc = "srv_recv" /\ pc' = "srv_recv"
         /\ rx'.interrupts # rx.interrupts) =>
          /\ rx' = [rx EXCEPT !.interrupts = @ + 1]
          /\ ~rx'.returned
          /\ conn' = conn
          /\ rxq' = rxq
          /\ srv' = srv
          /\ nb_error_treat' = nb_error_treat
     /\ (pc = "srv_recv" /\ rx'.returned) =>
          /\ rx'.ret # SELECT_FAILURE
          /\ rx'.ret = COMM_TIME_OUT => rxq = <<>>]_vars

(* A whole request was received and accepted after MaxInterrupts           *)
(* interrupted waits.                                                      *)
C30_Witness ==
  /\ pc = "srv_listened"
  /\ rx.returned
  /\ rx.ret = 0
  /\ rx.interrupts = MaxInterrupts
  /\ srv.listen_ret = 0
  /\ srv.query_size >= header_length + 6

(* C31: every call of receive_msg returns in the end, with success, a     *)
(* timeout, an oversize or a failure, when signals do not interrupt its   *)
(* waits for ever; and it returns 0 exactly when the length it works to   *)
(* is met, asking for no further byte.                                    *)
C31_ReceiveReturns ==
  /\ [](ListenReturned /\ rx.ret = 0 =>
          rx.received = rx.msg_size_computed /\ rx.size_to_read = 0)
  /\ (pc = "srv_recv") ~> (pc # "srv_recv" /\ rx.returned)

(* A receive that was interrupted MaxInterrupts times and got part of a   *)
(* request has returned on the timeout.                                   *)
C31_Witness ==
  /\ ListenReturned
  /\ rx.ret = COMM_TIME_OUT
  /\ rx.interrupts = MaxInterrupts
  /\ rx.received > 0
  /\ rx.received < rx.msg_size_computed

(***************************************************************************)
(* Properties of compute_response_size.                                    *)
(***************************************************************************)
SizeFc ==
  Rd(query, header_length + 1)

(* The body of the response the claim gives for a function code and a     *)
(* quantity.                                                               *)
BodySize(fc, qty) ==
  IF fc \in {1, 2} THEN 3 + ((qty + 7) \div 8)
  ELSE IF fc \in {3, 4} THEN 3 + 2 * qty
  ELSE IF fc = 7 THEN 4
  ELSE 6

(* C32: compute_response_size returns header_length + checksum_size +     *)
(* body, where body is 3 + ceil(qty/8) for the function codes 1 and 2,    *)
(* 3 + 2*qty for 3 and 4, 4 for 7 and 6 for every other code, for every   *)
(* quantity of 16 bits; the size does not decrease when the quantity      *)
(* grows.                                                                  *)
C32_ResponseSize ==
  /\ pc = "size_done" =>
       result = header_length + checksum_size
                + BodySize(SizeFc, SizeQuantityOf(query))
  /\ pc = "size_next" =>
       /\ response_size = header_length + checksum_size
                          + BodySize(SizeFc, SizeQuantityOf(query))
       /\ response_size >= result

(* Nine coils take two bytes where eight took one, on RTU. *)
C32_Witness ==
  /\ pc = "size_next"
  /\ type_com = "RTU"
  /\ SizeFc = FC_READ_COIL_STATUS
  /\ SizeQuantityOf(query) = 9
  /\ result = 6
  /\ response_size = 7


(***************************************************************************)
(* The table-driven checksum against the bit-by-bit one.                   *)
(***************************************************************************)
(* The request that reads 3 holding registers at 0x006B from unit 0x11.    *)
ReadThreeAt6B ==
  /\ op.fn = "read_holding_registers"
  /\ op.slave = 17
  /\ op.addr = 107
  /\ op.count = 3

C34_SuccessOnlyForOwnReply ==
  ( /\ pc = "done"
    /\ rx.returned
    /\ rx.ret = 0
    /\ result > 0 )
  => /\ Rd(response, header_length) = Rd(query, header_length)
     /\ Rd(response, header_length + 1) = Rd(query, header_length + 1)


(***************************************************************************)
(* The destination buffer of a read that fails.                            *)
(***************************************************************************)
(* C35: when read_coil_status, read_input_status, read_holding_registers   *)
(* or read_input_registers returns a negative value, the call has written  *)
(* no element of the caller's destination buffer.                          *)
C35_FailedReadWritesNothing ==
  ( /\ pc = "done"
    /\ op.fn \in ReadBitFns \cup ReadRegFns
    /\ result < 0 )
  => data_dest = <<>>

C35_Witness ==
  /\ pc = "done"
  /\ op.fn = "read_holding_registers"
  /\ op.count = 3
  /\ rx.returned
  /\ rx.received = header_length + 3 + checksum_size
  /\ Rd(response, header_length + 1) = 128 + FC_READ_HOLDING_REGISTERS
  /\ result = -2
  /\ data_dest = <<>>


(***************************************************************************)
(* The server's answer against the size the master predicts.               *)
(***************************************************************************)
(* C36: for every request with a function code from 0x01 to 0x05 that the  *)
(* server answers, on RTU and on TCP, the number of bytes it transmits is   *)
(* the size compute_response_size predicts for that request.                *)
C36_ServerSizeAsPredicted ==
  ( /\ srv.answered
    /\ Rd(srv.request, header_length + 1) \in
         FC_READ_COIL_STATUS..FC_FORCE_SINGLE_COIL )
  => Len(srv.response) = compute_response_size(srv.request)


(***************************************************************************)
(* The frame the server answers with.                                      *)
(***************************************************************************)
(* C37: for every request manage_query answers, the frame it transmits     *)
(* holds a unit byte and a function-code byte, its unit byte is the        *)
(* request's, and its function-code byte is the request's function code or *)
(* that code with bit 0x80 set.                                            *)
C37_AnswerEchoesUnitAndFunction ==
  srv.answered =>
    LET unit == Rd(srv.request, header_length)
        function == Rd(srv.request, header_length + 1)
    IN  /\ Len(srv.response) >= header_length + 2 + checksum_size
        /\ srv.response[header_length + 1] = unit
        /\ srv.response[header_length + 2] \in {function, BitOr(function, 128)}


(***************************************************************************)
(* The response against the room of its buffer.                            *)
(***************************************************************************)
(* C38: the response manage_query builds to a read request, with the CRC   *)
(* modbus_send appends, is at most MAX_PACKET_SIZE bytes long, whatever    *)
(* the quantity field, and its byte_count byte is the number of payload    *)
(* bytes that follow it.                                                   *)
C38_ResponseFitsBuffer ==
  ( /\ srv.answered
    /\ Rd(srv.request, header_length + 1) \in
         FC_READ_COIL_STATUS..FC_READ_INPUT_REGISTERS )
  => /\ ~srv.overflow
     /\ Len(srv.response) <= MAX_PACKET_SIZE
     /\ srv.response[header_length + 3]
          = Len(srv.response) - (header_length + 3 + checksum_size)


(***************************************************************************)
(* The connection after an exception response.                             *)
(***************************************************************************)
(* The operation returned -k for the exception response with code k that   *)
(* it received whole.                                                      *)
ExceptionReturned ==
  /\ pc = "done"
  /\ rx.returned
  /\ rx.ret = COMM_TIME_OUT
  /\ rx.received = header_length + 3 + checksum_size
  /\ Rd(response, header_length + 1) = 128 + Rd(query, header_length + 1)
  /\ Rd(response, header_length + 2) \in 1..(NB_TAB_ERROR_MSG - 1)
  /\ result = 0 - Rd(response, header_length + 2)

(* C39: on a TCP handle in reconnect-on-error mode, an operation that      *)
(* returns -k for a well-formed exception response leaves the connection   *)
(* as it was: neither closed nor reopened.                                 *)
C39_ExceptionKeepsConnection ==
  ( /\ type_com = "TCP"
    /\ error_handling = "RECONNECT_ON_ERROR"
    /\ ExceptionReturned )
  => /\ ~reconnected
     /\ conn = [gen |-> 0, open |-> TRUE]

=============================================================================
